---- MODULE Spec2Model ----
(***************************************************************************)
(* Multi-book limit order book: the book manager (orderbook_manager.rs),   *)
(* the order index (order.rs), the level pool (pool.rs) and the matching   *)
(* engine (matching.rs).  The per-book structure (orderbook.rs), the Level *)
(* record (level.rs) and the Price wrapper (price.rs) are not part of the  *)
(* source tree at hand; they are modelled from sections 3 and 4.3 of the   *)
(* specification and from the way the manager and the HTTP layer use them. *)
(*                                                                         *)
(* Quantities and prices are u32 in the program.  Every value of the model *)
(* stays far below 2^31, where `as i32` and u32 addition are exact; a Qty  *)
(* subtraction whose left operand is smaller than its right one aborts the *)
(* call (overflow check) and is excluded by the guards of the actions.     *)
(***************************************************************************)
EXTENDS Integers, Sequences, FiniteSets, TLC

\* ------------------------------------------------------------------ bounds
MaxOrderId == 3
MaxBookId == 1
MaxPrice == 2
MaxQty == 2
MaxOps == 3
MaxUnitOps == 4
MaxWideOps == 3
MaxDupOps == 3
MaxMatches == 3

OrderIds == 1..MaxOrderId
BookIds == 0..MaxBookId
Prices == 1..MaxPrice
Qtys == 1..MaxQty

\* ------------------------------------------------------------ option values
None == [none |-> TRUE]

Some(v) == [some |-> v]

Min(a, b) == IF a <= b THEN a ELSE b

Abs(x) == IF x < 0 THEN -x ELSE x

\* Sequence helpers (Vec::insert, Vec::remove, Vec::retain).
InsertAt(s, i, e) == SubSeq(s, 1, i - 1) \o <<e>> \o SubSeq(s, i, Len(s))

RemoveAt(s, i) == SubSeq(s, 1, i - 1) \o SubSeq(s, i + 1, Len(s))

\* ------------------------------------------------------------------- Price
\* Price(i32): bids are stored as +p, asks as -p, computed in i32 from the
\* cast `price32 as i32`.  The cast keeps the 32-bit pattern, and a u32 input
\* is written by that pattern (see WidePrices), so the cast is the identity.
Price_from_u32(price32, is_bid) == IF is_bid THEN price32 ELSE -price32

Price_absolute(price) == Abs(price)

Price_is_bid(price) == price > 0

\* ------------------------------------------------------------------- Level
Level_new(price, size) == [price |-> price, size |-> size]

Level_default == Level_new(0, 0)

Level_incr(level, qty) == [level EXCEPT !.size = @ + qty]

\* Qty -= Qty: the caller guarantees size >= qty; a negative size marks the
\* aborted (overflow-checked) subtraction.
Level_decr(level, qty) == [level EXCEPT !.size = @ - qty]

\* ------------------------------------------------------------------- Order
Order_new(qty, level_id, book_id, auth) ==
    [qty |-> qty, level_id |-> level_id, book_id |-> book_id,
     trader |-> auth.trader, nonce |-> auth.nonce,
     expiry |-> auth.expiry, signature |-> auth.signature]

NoAuth == [trader |-> None, nonce |-> None, expiry |-> None, signature |-> None]

\* ---------------------------------------------------------------- LevelPool
\* levels: Vec<Level>, free_list: Vec<LevelId>; LevelId i is levels[i + 1].
LevelPool_new == [levels |-> <<>>, free_list |-> <<>>]

\* Mutant of LevelPool_alloc: reuses the oldest entry of the free-list.
LevelPool_alloc_fifo(pool) ==
    IF pool.free_list # <<>>
    THEN [id |-> pool.free_list[1],
          pool |-> [pool EXCEPT !.free_list = Tail(@)]]
    ELSE [id |-> Len(pool.levels),
          pool |-> [pool EXCEPT !.levels = Append(@, Level_default)]]

LevelPool_alloc(pool) ==
    IF pool.free_list # <<>>
    THEN [id |-> pool.free_list[Len(pool.free_list)],
          pool |-> [pool EXCEPT !.free_list = SubSeq(@, 1, Len(@) - 1)]]
    ELSE [id |-> Len(pool.levels),
          pool |-> [pool EXCEPT !.levels = Append(@, Level_default)]]

LevelPool_free(pool, id) == [pool EXCEPT !.free_list = Append(@, id)]

LevelPool_get(pool, id) ==
    IF id < Len(pool.levels) THEN Some(pool.levels[id + 1]) ELSE None

LevelPool_set_level(pool, id, level) ==
    IF id < Len(pool.levels) THEN [pool EXCEPT !.levels[id + 1] = level] ELSE pool

\* --------------------------------------------------------------- OrderBook
\* bids, asks: side sequences of handles [price, level_id], sorted by signed
\* price descending (best price at the head); level_pool: the book's pool.
PriceLevel_new(price, level_id) == [price |-> price, level_id |-> level_id]

OrderBook_new == [bids |-> <<>>, asks |-> <<>>, level_pool |-> LevelPool_new]

\* Index of the handle with this price, 0 when there is none.
SortedLevels_find(levels, price) ==
    IF \E i \in 1..Len(levels) : levels[i].price = price
    THEN CHOOSE i \in 1..Len(levels) : levels[i].price = price
    ELSE 0

\* The position that keeps the sequence descending in signed price.
SortedLevels_insert(levels, handle) ==
    LET smaller == {i \in 1..Len(levels) : levels[i].price < handle.price}
        pos == IF smaller = {} THEN Len(levels) + 1
               ELSE CHOOSE i \in smaller : \A j \in smaller : i <= j
    IN InsertAt(levels, pos, handle)

SortedLevels_remove(levels, price) ==
    LET i == SortedLevels_find(levels, price)
    IN IF i = 0 THEN levels ELSE RemoveAt(levels, i)

OrderBook_side(book, price) == IF Price_is_bid(price) THEN book.bids ELSE book.asks

OrderBook_set_side(book, price, levels) ==
    IF Price_is_bid(price) THEN [book EXCEPT !.bids = levels]
    ELSE [book EXCEPT !.asks = levels]

\* Returns the book and the order with its level_id recorded.
OrderBook_add_order(book, order, price, qty) ==
    LET levels == OrderBook_side(book, price)
        i == SortedLevels_find(levels, price)
    IN IF i # 0
       THEN LET id == levels[i].level_id
            IN [book |-> [book EXCEPT !.level_pool.levels[id + 1] = Level_incr(@, qty)],
                order |-> [order EXCEPT !.level_id = id]]
       ELSE LET a == LevelPool_alloc(book.level_pool)
                pool == LevelPool_set_level(a.pool, a.id, Level_new(price, qty))
                linked == SortedLevels_insert(levels, PriceLevel_new(price, a.id))
            IN [book |-> OrderBook_set_side([book EXCEPT !.level_pool = pool], price, linked),
                order |-> [order EXCEPT !.level_id = a.id]]

OrderBook_remove_order(book, order) ==
    LET id == order.level_id
        lvl == Level_decr(book.level_pool.levels[id + 1], order.qty)
        dec == [book EXCEPT !.level_pool.levels[id + 1] = lvl]
    IN IF lvl.size = 0
       THEN LET unlinked == OrderBook_set_side(dec, lvl.price,
                               SortedLevels_remove(OrderBook_side(dec, lvl.price), lvl.price))
            IN [unlinked EXCEPT !.level_pool = LevelPool_free(@, id)]
       ELSE dec

OrderBook_reduce_order(book, order, qty) ==
    [book EXCEPT !.level_pool.levels[order.level_id + 1] = Level_decr(@, qty)]

OrderBook_get_best_bid(book) ==
    IF book.bids = <<>> THEN None ELSE Some(book.bids[1].price)

OrderBook_get_best_ask(book) ==
    IF book.asks = <<>> THEN None ELSE Some(book.asks[1].price)

OrderBook_get_best_bid_level(book) ==
    IF book.bids = <<>> THEN None ELSE Some(book.bids[1].level_id)

OrderBook_get_best_ask_level(book) ==
    IF book.asks = <<>> THEN None ELSE Some(book.asks[1].level_id)

\* ------------------------------------------------------------------ OidMap
\* data: Vec<Option<Order>>, one slot per OrderId.
OidMap_new == [o \in OrderIds |-> None]

OidMap_insert(data, oid, order) == [data EXCEPT ![oid] = order]

OidMap_remove(data, oid) == [data EXCEPT ![oid] = None]

OidMap_update_qty(data, oid, qty) ==
    IF data[oid] # None THEN [data EXCEPT ![oid].qty = @ - qty] ELSE data

OidMap_get(data, oid) == data[oid]

\* iter(): the live entries in index order.
OidMap_iter(data) == {o \in DOMAIN data : data[o] # None}

\* --------------------------------------------------------- OrderBookManager
\* m = [books, oid_map, panic]; panic records that the call aborted: a Qty
\* subtraction underflowed or books was indexed out of bounds.
\* books is a vector of MAX_BOOKS slots that no call resizes; the model keeps
\* the slots of the book ids in use.  oid_map.data is kept by its content: a
\* slot past the vector's end reads None and insert resizes up to its index.
INITIAL_ORDER_COUNT == 1048576

MAX_BOOKS == 16384

\* self.books.get(book_id): None past the end of the vector.
Books_get(books, book_id) == IF book_id < MAX_BOOKS THEN books[book_id] ELSE None

OrderBookManager_new ==
    [books |-> [b \in BookIds |-> None], oid_map |-> OidMap_new, panic |-> FALSE]

Underflowed(m) ==
    \/ \E o \in DOMAIN m.oid_map : m.oid_map[o] # None /\ m.oid_map[o].qty < 0
    \/ \E b \in DOMAIN m.books : /\ m.books[b] # None
                           /\ \E i \in 1..Len(m.books[b].level_pool.levels) :
                                 m.books[b].level_pool.levels[i].size < 0

Checked(m) == [m EXCEPT !.panic = @ \/ Underflowed(m)]

\* self.books[book_id] panics when book_id is past the end of books.
add_order(m, order_id, book_id, qty, price32, is_bid, auth) ==
    LET price == Price_from_u32(price32, is_bid)
        order == Order_new(qty, 0, book_id, auth)
        book == IF m.books[book_id] = None THEN OrderBook_new ELSE m.books[book_id]
        r == OrderBook_add_order(book, order, price, qty)
    IN IF book_id >= MAX_BOOKS THEN [m EXCEPT !.panic = TRUE]
       ELSE [m EXCEPT !.books[book_id] = r.book,
                      !.oid_map = OidMap_insert(@, order_id, r.order)]

remove_order(m, order_id) ==
    LET order == OidMap_get(m.oid_map, order_id)
    IN IF order # None
       THEN Checked([m EXCEPT !.books[order.book_id] = OrderBook_remove_order(@, order),
                              !.oid_map = OidMap_remove(@, order_id)])
       ELSE m

cancel_order(m, order_id, qty) ==
    LET order == OidMap_get(m.oid_map, order_id)
    IN IF order # None
       THEN Checked([m EXCEPT !.books[order.book_id] = OrderBook_reduce_order(@, order, qty),
                              !.oid_map = OidMap_update_qty(@, order_id, qty)])
       ELSE m

\* Mutant of execute_order: a fill of the whole quantity of an order with
\* quantity > 0 reduces the order instead of removing it.
execute_order_keeps_filled(m, order_id, qty) ==
    LET order == OidMap_get(m.oid_map, order_id)
    IN IF order # None
       THEN IF order.qty = qty /\ qty = 0
            THEN Checked([m EXCEPT !.books[order.book_id] = OrderBook_remove_order(@, order),
                                   !.oid_map = OidMap_remove(@, order_id)])
            ELSE Checked([m EXCEPT !.books[order.book_id] = OrderBook_reduce_order(@, order, qty),
                                   !.oid_map = OidMap_update_qty(@, order_id, qty)])
       ELSE m

execute_order(m, order_id, qty) ==
    LET order == OidMap_get(m.oid_map, order_id)
    IN IF order # None
       THEN IF order.qty = qty
            THEN Checked([m EXCEPT !.books[order.book_id] = OrderBook_remove_order(@, order),
                                   !.oid_map = OidMap_remove(@, order_id)])
            ELSE Checked([m EXCEPT !.books[order.book_id] = OrderBook_reduce_order(@, order, qty),
                                   !.oid_map = OidMap_update_qty(@, order_id, qty)])
       ELSE m

\* The side replace_order captures from the old order's level (bid when the
\* old order is not live).
replace_is_bid(m, order_id) ==
    LET order == OidMap_get(m.oid_map, order_id)
    IN IF order # None
       THEN Price_is_bid(
              LevelPool_get(m.books[order.book_id].level_pool, order.level_id).some.price)
       ELSE TRUE

replace_order(m, order_id, new_order_id, new_qty, new_price) ==
    LET order == OidMap_get(m.oid_map, order_id)
        is_bid == replace_is_bid(m, order_id)
        book_id == IF order # None THEN order.book_id ELSE 0
        removed == IF order # None
                   THEN Checked([m EXCEPT !.books[order.book_id] = OrderBook_remove_order(@, order),
                                          !.oid_map = OidMap_remove(@, order_id)])
                   ELSE m
    IN add_order(removed, new_order_id, book_id, new_qty, new_price, is_bid, NoAuth)

get_best_bid(m, book_id) ==
    IF Books_get(m.books, book_id) = None THEN None
    ELSE OrderBook_get_best_bid(m.books[book_id])

\* Mutant of get_best_ask: reads the tail of the ask sequence, not its head.
get_best_ask_tail(m, book_id) ==
    IF Books_get(m.books, book_id) = None \/ m.books[book_id].asks = <<>> THEN None
    ELSE Some(m.books[book_id].asks[Len(m.books[book_id].asks)].price)

get_best_ask(m, book_id) ==
    IF Books_get(m.books, book_id) = None THEN None
    ELSE OrderBook_get_best_ask(m.books[book_id])

\* Mutant of get_next_match: takes the first order with the level's id,
\* whatever book owns it.
get_next_match_any_book(m, book_id, is_bid, price) ==
    IF Books_get(m.books, book_id) = None THEN None
    ELSE LET book == m.books[book_id]
             level == IF is_bid THEN OrderBook_get_best_ask_level(book)
                      ELSE OrderBook_get_best_bid_level(book)
         IN IF level = None THEN None
            ELSE LET lvl == LevelPool_get(book.level_pool, level.some)
                 IN IF lvl = None THEN None
                    ELSE LET level_price == lvl.some.price
                             can_match ==
                                 IF is_bid
                                 THEN Price_absolute(price) >= Price_absolute(level_price)
                                 ELSE Price_absolute(price) <= Price_absolute(level_price)
                             at == {o \in OidMap_iter(m.oid_map) :
                                       m.oid_map[o].level_id = level.some}
                         IN IF ~can_match \/ at = {} THEN None
                            ELSE LET oid == CHOOSE o \in at : \A x \in at : o <= x
                                 IN Some([oid |-> oid, qty |-> m.oid_map[oid].qty])

\* Some([oid, qty]) of the first order, in index order, at the best level of
\* the side opposite to is_bid, when that level's price crosses.
get_next_match(m, book_id, is_bid, price) ==
    IF Books_get(m.books, book_id) = None THEN None
    ELSE LET book == m.books[book_id]
             level == IF is_bid THEN OrderBook_get_best_ask_level(book)
                      ELSE OrderBook_get_best_bid_level(book)
         IN IF level = None THEN None
            ELSE LET lvl == LevelPool_get(book.level_pool, level.some)
                 IN IF lvl = None THEN None
                    ELSE LET level_price == lvl.some.price
                             can_match ==
                                 IF is_bid
                                 THEN Price_absolute(price) >= Price_absolute(level_price)
                                 ELSE Price_absolute(price) <= Price_absolute(level_price)
                             at == {o \in OidMap_iter(m.oid_map) :
                                       /\ m.oid_map[o].book_id = book_id
                                       /\ m.oid_map[o].level_id = level.some}
                         IN IF ~can_match \/ at = {} THEN None
                            ELSE LET oid == CHOOSE o \in at : \A x \in at : o <= x
                                 IN Some([oid |-> oid, qty |-> m.oid_map[oid].qty])

\* ------------------------------------------------------------ MatchingEngine
\* Mutant of MatchDetails_new: stores the maker as the taker too.
MatchDetails_new_maker_twice(maker_order, taker_order, exec_qty, exec_price, maker_is_buyer) ==
    [maker_order |-> maker_order, taker_order |-> maker_order, exec_qty |-> exec_qty,
     exec_price |-> exec_price, maker_is_buyer |-> maker_is_buyer]

MatchDetails_new(maker_order, taker_order, exec_qty, exec_price, maker_is_buyer) ==
    [maker_order |-> maker_order, taker_order |-> taker_order, exec_qty |-> exec_qty,
     exec_price |-> exec_price, maker_is_buyer |-> maker_is_buyer]

\* The while loop of match_order.  st = [m, remaining_qty, match_details, fills];
\* fills logs every execute_order call of the loop with the manager before
\* and after it (an observation of the run, not program state).
RECURSIVE MatchLoop(_, _, _, _, _, _)
MatchLoop(st, book_id, qty, price, is_bid, auth) ==
    IF st.remaining_qty > 0
    THEN LET next == get_next_match(st.m, book_id, is_bid, price)
         IN IF next # None
            THEN LET resting_order_id == next.some.oid
                     match_qty == next.some.qty
                     exec_qty == Min(st.remaining_qty, match_qty)
                     executed == execute_order(st.m, resting_order_id, exec_qty)
                     maker_order == OidMap_get(executed.oid_map, resting_order_id)
                     detail == MatchDetails_new(maker_order,
                                                Order_new(qty, 0, book_id, auth),
                                                exec_qty, Price_absolute(price), ~is_bid)
                     fill == [maker |-> resting_order_id, match_qty |-> match_qty,
                              exec_qty |-> exec_qty, remaining_qty |-> st.remaining_qty,
                              before |-> st.m, after |-> executed]
                 IN MatchLoop([m |-> executed,
                               remaining_qty |-> st.remaining_qty - exec_qty,
                               match_details |-> IF maker_order # None
                                                 THEN Append(st.match_details, detail)
                                                 ELSE st.match_details,
                               fills |-> Append(st.fills, fill)],
                              book_id, qty, price, is_bid, auth)
            ELSE st
    ELSE st

\* match_order up to the end of its loop: the cross test on the opposite best
\* price, then the loop.  Returns [m, remaining_qty, match_details, fills].
MatchFills(m, book_id, qty, price32, is_bid, auth) ==
    LET price == Price_from_u32(price32, is_bid)
        opposite_best_price == IF is_bid THEN get_best_ask(m, book_id)
                               ELSE get_best_bid(m, book_id)
        can_match == IF opposite_best_price # None
                     THEN IF is_bid
                          THEN Price_absolute(price) >= Price_absolute(opposite_best_price.some)
                          ELSE Price_absolute(price) <= Price_absolute(opposite_best_price.some)
                     ELSE FALSE
        st0 == [m |-> m, remaining_qty |-> qty, match_details |-> <<>>, fills |-> <<>>]
    IN IF can_match THEN MatchLoop(st0, book_id, qty, price, is_bid, auth) ELSE st0

\* Mutant of match_order: rests the taker without testing remaining_qty > 0.
match_order_always_rests(m, order_id, book_id, qty, price32, is_bid, auth) ==
    LET price == Price_from_u32(price32, is_bid)
        st == MatchFills(m, book_id, qty, price32, is_bid, auth)
    IN [st EXCEPT !.m = add_order(st.m, order_id, book_id, st.remaining_qty,
                                  Price_absolute(price), is_bid, auth)]

\* Returns [m, remaining_qty, match_details, fills].
match_order(m, order_id, book_id, qty, price32, is_bid, auth) ==
    LET price == Price_from_u32(price32, is_bid)
        st == MatchFills(m, book_id, qty, price32, is_bid, auth)
    IN IF st.remaining_qty > 0
       THEN [st EXCEPT !.m = add_order(st.m, order_id, book_id, st.remaining_qty,
                                       Price_absolute(price), is_bid, auth)]
       ELSE st

\* --------------------------------------------------------------- translator
\* Unsigned integers wider than TLC's are little-endian sequences of bytes
\* (a u128 is 16 bytes, a u64 is 8).  A u32 is written by its 32-bit pattern
\* read as i32, as for prices: -1 stands for 2^32 - 1.
Bytes4(n) == <<n % 256, (n \div 256) % 256, (n \div 65536) % 256, (n \div 16777216) % 256>>

\* The four bytes of the u32 with pattern r.
U32Bytes(r) ==
    IF r >= 0 THEN Bytes4(r)
    ELSE [Bytes4(r + 2147483647 + 1) EXCEPT ![4] = @ + 128]

Zeros(n) == [i \in 1..n |-> 0]

\* u128::from(u32) and u128::from(u64).
U128_from_u32(r) == U32Bytes(r) \o Zeros(12)

U128_from_u64(n) == n \o Zeros(8)

\* Sum of the byte products a[i] * b[k + 1 - i] for i in 1..upto.
RECURSIVE Column(_, _, _, _)
Column(a, b, k, upto) ==
    IF upto = 0 THEN 0
    ELSE (IF upto <= Len(a) /\ k + 1 - upto >= 1 /\ k + 1 - upto <= Len(b)
          THEN a[upto] * b[k + 1 - upto] ELSE 0)
         + Column(a, b, k, upto - 1)

\* Bytes k..width of the product of a and b, given the carry into byte k;
\* what exceeds `width` bytes is dropped.
RECURSIVE MulBytes(_, _, _, _, _)
MulBytes(a, b, k, carry, width) ==
    IF k > width THEN <<>>
    ELSE LET t == Column(a, b, k, k) + carry
         IN <<t % 256>> \o MulBytes(a, b, k + 1, t \div 256, width)

\* Mutant of U128_mul: the product computed in 32 bits, then widened.
U128_mul_in_u32(a, b) == MulBytes(a, b, 1, 0, 4) \o Zeros(12)

\* The `*` of two u128 values: the product modulo 2^128.
U128_mul(a, b) == MulBytes(a, b, 1, 0, 16)

\* Mutant of extract_signature: r and s exchanged.
extract_signature_swapped(sig, sig_type) ==
    [signature_type |-> sig_type, v |-> sig[65],
     r |-> SubSeq(sig, 33, 64), s |-> SubSeq(sig, 1, 32)]

extract_signature(sig, sig_type) ==
    [signature_type |-> sig_type, v |-> sig[65],
     r |-> SubSeq(sig, 1, 32), s |-> SubSeq(sig, 33, 64)]

\* Some(SettlementOrder) or None, with the early returns in source order.
translate_to_settlement(maker_order, taker_order, exec_qty, exec_price, maker_is_buyer, market_config) ==
    IF maker_order.signature = None THEN None
    ELSE IF taker_order.signature = None THEN None
    ELSE IF maker_order.trader = None THEN None
    ELSE IF taker_order.trader = None THEN None
    ELSE IF maker_order.expiry = None THEN None
    ELSE IF maker_order.nonce = None THEN None
    ELSE LET product == U128_mul(U128_from_u32(exec_price), U128_from_u32(exec_qty))
             quantity == U128_from_u32(exec_qty)
         IN Some([maker_token |-> IF maker_is_buyer THEN market_config.base_token
                                  ELSE market_config.security_token,
                  taker_token |-> IF maker_is_buyer THEN market_config.security_token
                                  ELSE market_config.base_token,
                  maker_amount |-> IF maker_is_buyer THEN product ELSE quantity,
                  taker_amount |-> IF maker_is_buyer THEN quantity ELSE product,
                  maker |-> maker_order.trader.some,
                  taker |-> taker_order.trader.some,
                  fee_recipient |-> market_config.fee_recipient,
                  pool |-> market_config.pool,
                  expiration |-> maker_order.expiry.some,
                  salt |-> U128_from_u64(maker_order.nonce.some),
                  maker_is_buyer |-> maker_is_buyer,
                  maker_signature |-> extract_signature(maker_order.signature.some,
                                                        market_config.signature_type),
                  taker_signature |-> extract_signature(taker_order.signature.some,
                                                        market_config.signature_type)])

\* Mutant of translate_matches: collects the settlements in reverse order.
RECURSIVE translate_matches_reversed(_, _)
translate_matches_reversed(matches, market_config) ==
    IF matches = <<>> THEN <<>>
    ELSE LET md == Head(matches)
             t == translate_to_settlement(md.maker_order, md.taker_order, md.exec_qty,
                                          md.exec_price, md.maker_is_buyer, market_config)
             rest == translate_matches_reversed(Tail(matches), market_config)
         IN IF t = None THEN rest ELSE rest \o <<t.some>>

\* into_iter().filter_map(translate_to_settlement).collect()
RECURSIVE translate_matches(_, _)
translate_matches(matches, market_config) ==
    IF matches = <<>> THEN <<>>
    ELSE LET md == Head(matches)
             t == translate_to_settlement(md.maker_order, md.taker_order, md.exec_qty,
                                          md.exec_price, md.maker_is_buyer, market_config)
             rest == translate_matches(Tail(matches), market_config)
         IN IF t = None THEN rest ELSE <<t.some>> \o rest

\* ----------------------------------------------------------------- AppState
\* Book names the requests draw from.
BookNames == {"ETH-USD", "BTC-USD"}

\* start_server: an empty registry and no order book.  book_registry maps a
\* name to Some(BookId), orderbooks a name to its OrderBook; creating holds
\* the names create_book has registered and not yet given an order book.
AppState_new ==
    [book_registry |-> [n \in BookNames |-> None],
     orderbooks |-> [n \in BookNames |-> None],
     creating |-> {}]

\* ------------------------------------------------------------------- state
VARIABLES
    books,      \* OrderBookManager.books
    oid_map,    \* OrderBookManager.oid_map.data
    arrival,    \* observer: the live orders in the order of their insertion,
                \* each [oid, price] with the signed price it was inserted at
    last,       \* the last call and, for match_order, what it returned
    ops,        \* number of calls made
    api         \* the HTTP surface's AppState: book_registry, orderbooks and
                \* the create_book handlers between their two steps

vars == <<books, oid_map, arrival, last, ops, api>>

Manager == [books |-> books, oid_map |-> oid_map, panic |-> FALSE]

\* The authentication tuple submitted with order o.
AuthOf(o) == [trader |-> Some(o), nonce |-> Some(o), expiry |-> Some(0),
              signature |-> Some(o)]

RECURSIVE SeqFilter(_, _)
SeqFilter(s, keep) ==
    IF s = <<>> THEN <<>>
    ELSE IF Head(s).oid \in keep THEN <<Head(s)>> \o SeqFilter(Tail(s), keep)
         ELSE SeqFilter(Tail(s), keep)

Entry(o, price) == [oid |-> o, price |-> price]

\* arrival after a call that left manager m and inserted the entries of the
\* sequence `inserted` (at most one).
Arrived(m, inserted) ==
    SeqFilter(arrival, {o \in DOMAIN m.oid_map : /\ m.oid_map[o] # None
                                                 /\ \A i \in 1..Len(inserted) : inserted[i].oid # o})
        \o inserted

Commit(m, inserted, result, budget) ==
    /\ ops < budget
    /\ ~m.panic
    /\ books' = m.books
    /\ oid_map' = m.oid_map
    /\ arrival' = Arrived(m, inserted)
    /\ last' = result
    /\ ops' = ops + 1
    /\ api' = api

Init ==
    /\ books = OrderBookManager_new.books
    /\ oid_map = OrderBookManager_new.oid_map
    /\ arrival = <<>>
    /\ last = [op |-> "new"]
    /\ ops = 0
    /\ api = AppState_new

\* One action per public call.  B, Q, P are the sets the call's book id,
\* quantity and external price are drawn from, budget the number of calls.
\* Callers' contract: a new order id is not live; a cancelled or executed
\* quantity does not exceed the order's quantity.
DoAddOrder(B, Q, P, budget) ==
    \E o \in OrderIds, b \in B, q \in Q, p \in P, is_bid \in BOOLEAN :
        /\ oid_map[o] = None
        /\ Commit(add_order(Manager, o, b, q, p, is_bid, AuthOf(o)),
                  <<Entry(o, Price_from_u32(p, is_bid))>>,
                  [op |-> "add_order", order_id |-> o, book_id |-> b, qty |-> q,
                   price |-> p, is_bid |-> is_bid, before |-> Manager],
                  budget)

DoRemoveOrder(budget) ==
    \E o \in OrderIds :
        Commit(remove_order(Manager, o), <<>>,
               [op |-> "remove_order", order_id |-> o, before |-> Manager], budget)

DoCancelOrder(Q, budget) ==
    \E o \in OrderIds, q \in Q :
        /\ oid_map[o] # None => q <= oid_map[o].qty
        /\ Commit(cancel_order(Manager, o, q), <<>>,
                  [op |-> "cancel_order", order_id |-> o, qty |-> q, before |-> Manager],
                  budget)

DoExecuteOrder(Q, budget) ==
    \E o \in OrderIds, q \in Q :
        /\ oid_map[o] # None => q <= oid_map[o].qty
        /\ Commit(execute_order(Manager, o, q), <<>>,
                  [op |-> "execute_order", order_id |-> o, qty |-> q, arrival |-> arrival,
                   before |-> Manager],
                  budget)

DoReplaceOrder(Q, P, budget) ==
    \E o \in OrderIds, n \in OrderIds, q \in Q, p \in P :
        /\ n = o \/ oid_map[n] = None
        /\ Commit(replace_order(Manager, o, n, q, p),
                  <<Entry(n, Price_from_u32(p, replace_is_bid(Manager, o)))>>,
                  [op |-> "replace_order", order_id |-> o, new_order_id |-> n,
                   new_qty |-> q, new_price |-> p, arrival |-> arrival,
                   before |-> Manager],
                  budget)

\* Signed price at which match_order rests the remainder of a taker with
\* external price p: add_order is given price.absolute() as u32.
RestedPrice(p, is_bid) ==
    Price_from_u32(Price_absolute(Price_from_u32(p, is_bid)), is_bid)

DoMatchOrder(B, Q, P, budget) ==
    \E o \in OrderIds, b \in B, q \in Q, p \in P, is_bid \in BOOLEAN :
        /\ oid_map[o] = None
        /\ LET r == match_order(Manager, o, b, q, p, is_bid, AuthOf(o))
           IN Commit(r.m,
                     IF r.remaining_qty > 0
                     THEN <<Entry(o, RestedPrice(p, is_bid))>> ELSE <<>>,
                     [op |-> "match_order", order_id |-> o, book_id |-> b, qty |-> q,
                      price |-> p, is_bid |-> is_bid, arrival |-> arrival,
                      before |-> Manager, remaining_qty |-> r.remaining_qty,
                      match_details |-> r.match_details, fills |-> r.fills],
                     budget)

AddOrder == DoAddOrder(BookIds, Qtys, Prices, MaxOps)

RemoveOrder == DoRemoveOrder(MaxOps)

CancelOrder == DoCancelOrder(Qtys, MaxOps)

ExecuteOrder == DoExecuteOrder(Qtys, MaxOps)

ReplaceOrder == DoReplaceOrder(Qtys, Prices, MaxOps)

MatchOrder == DoMatchOrder(BookIds, Qtys, Prices, MaxOps)

Next ==
    \/ AddOrder
    \/ RemoveOrder
    \/ CancelOrder
    \/ ExecuteOrder
    \/ ReplaceOrder
    \/ MatchOrder

Spec == Init /\ [][Next]_vars

\* The same calls on book 0 with unit quantities, for longer call sequences.
UnitAddOrder == DoAddOrder({0}, {1}, Prices, MaxUnitOps)

UnitRemoveOrder == DoRemoveOrder(MaxUnitOps)

UnitCancelOrder == DoCancelOrder({1}, MaxUnitOps)

UnitExecuteOrder == DoExecuteOrder({1}, MaxUnitOps)

UnitReplaceOrder == DoReplaceOrder({1}, Prices, MaxUnitOps)

UnitMatchOrder == DoMatchOrder({0}, {1}, Prices, MaxUnitOps)

UnitNext ==
    \/ UnitAddOrder
    \/ UnitRemoveOrder
    \/ UnitCancelOrder
    \/ UnitExecuteOrder
    \/ UnitReplaceOrder
    \/ UnitMatchOrder

SpecUnit == Init /\ [][UnitNext]_vars

\* The manager after add_order(1) and add_order(2) at one ask level, the full
\* cancel_order(1, 1) and remove_order(2): order 1 is live with quantity 0 and
\* references the level that remove_order(2) freed.
StaleManager ==
    remove_order(
        cancel_order(
            add_order(add_order(OrderBookManager_new, 1, 0, 1, 1, FALSE, AuthOf(1)),
                      2, 0, 1, 1, FALSE, AuthOf(2)),
            1, 1),
        2)

InitStale ==
    /\ books = StaleManager.books
    /\ oid_map = StaleManager.oid_map
    /\ arrival = <<Entry(1, -1)>>
    /\ last = [op |-> "new"]
    /\ ops = 0
    /\ api = AppState_new

\* The unit calls continued from that state.
SpecStale == InitStale /\ [][UnitNext]_vars

\* External prices over the whole u32 range.  A u32 value is written by its
\* 32-bit pattern read as i32, so that `price32 as i32` is the identity on
\* the pattern: -1 stands for 4294967295 (2^32 - 1).
WidePrices == Prices \cup {-1}

\* The calls on book 0 with prices drawn from the whole u32 range.
WideAddOrder == DoAddOrder({0}, Qtys, WidePrices, MaxWideOps)

WideRemoveOrder == DoRemoveOrder(MaxWideOps)

WideCancelOrder == DoCancelOrder(Qtys, MaxWideOps)

WideExecuteOrder == DoExecuteOrder(Qtys, MaxWideOps)

WideReplaceOrder == DoReplaceOrder(Qtys, WidePrices, MaxWideOps)

WideMatchOrder == DoMatchOrder({0}, Qtys, WidePrices, MaxWideOps)

WideNext ==
    \/ WideAddOrder
    \/ WideRemoveOrder
    \/ WideCancelOrder
    \/ WideExecuteOrder
    \/ WideReplaceOrder
    \/ WideMatchOrder

SpecWide == Init /\ [][WideNext]_vars

\* add_order and match_order called against the callers' contract, with an
\* order id that is already live.
DoAddLiveId(B, Q, P, budget) ==
    \E o \in OrderIds, b \in B, q \in Q, p \in P, is_bid \in BOOLEAN :
        /\ oid_map[o] # None
        /\ Commit(add_order(Manager, o, b, q, p, is_bid, AuthOf(o)),
                  <<Entry(o, Price_from_u32(p, is_bid))>>,
                  [op |-> "add_order", order_id |-> o, book_id |-> b, qty |-> q,
                   price |-> p, is_bid |-> is_bid, before |-> Manager],
                  budget)

DoMatchLiveId(B, Q, P, budget) ==
    \E o \in OrderIds, b \in B, q \in Q, p \in P, is_bid \in BOOLEAN :
        /\ oid_map[o] # None
        /\ LET r == match_order(Manager, o, b, q, p, is_bid, AuthOf(o))
           IN Commit(r.m,
                     IF r.remaining_qty > 0
                     THEN <<Entry(o, RestedPrice(p, is_bid))>> ELSE <<>>,
                     [op |-> "match_order", order_id |-> o, book_id |-> b, qty |-> q,
                      price |-> p, is_bid |-> is_bid, arrival |-> arrival,
                      before |-> Manager, remaining_qty |-> r.remaining_qty,
                      match_details |-> r.match_details, fills |-> r.fills],
                     budget)

DupAddOrder == DoAddOrder({0}, Qtys, Prices, MaxDupOps)

DupRemoveOrder == DoRemoveOrder(MaxDupOps)

DupMatchOrder == DoMatchOrder({0}, Qtys, Prices, MaxDupOps)

DupAddLiveId == DoAddLiveId({0}, Qtys, Prices, MaxDupOps)

DupMatchLiveId == DoMatchLiveId({0}, Qtys, Prices, MaxDupOps)

DupNext ==
    \/ DupAddOrder
    \/ DupRemoveOrder
    \/ DupMatchOrder
    \/ DupAddLiveId
    \/ DupMatchLiveId

SpecDup == Init /\ [][DupNext]_vars

\* Capacity runs: book ids and order ids on both sides of the initial vector
\* lengths, starting from OrderBookManager::new().
MaxCapOps == 2

CapOrderIds == OrderIds \cup {INITIAL_ORDER_COUNT - 1, INITIAL_ORDER_COUNT}

CapBookIds == BookIds \cup {MAX_BOOKS - 1, MAX_BOOKS}

InitCapacity ==
    /\ books = [b \in {c \in CapBookIds : c < MAX_BOOKS} |-> None]
    /\ oid_map = [o \in CapOrderIds |-> None]
    /\ arrival = <<>>
    /\ last = [op |-> "new"]
    /\ ops = 0
    /\ api = AppState_new

CapAddOrder ==
    \E o \in CapOrderIds, b \in CapBookIds, q \in Qtys, p \in Prices, is_bid \in BOOLEAN :
        /\ oid_map[o] = None
        /\ Commit(add_order(Manager, o, b, q, p, is_bid, AuthOf(o)),
                  <<Entry(o, Price_from_u32(p, is_bid))>>,
                  [op |-> "add_order", order_id |-> o, book_id |-> b, qty |-> q,
                   price |-> p, is_bid |-> is_bid, before |-> Manager],
                  MaxCapOps)

CapRemoveOrder ==
    \E o \in CapOrderIds :
        Commit(remove_order(Manager, o), <<>>,
               [op |-> "remove_order", order_id |-> o, before |-> Manager], MaxCapOps)

CapMatchOrder ==
    \E o \in CapOrderIds, b \in CapBookIds, q \in Qtys, p \in Prices, is_bid \in BOOLEAN :
        /\ oid_map[o] = None
        /\ LET r == match_order(Manager, o, b, q, p, is_bid, AuthOf(o))
           IN Commit(r.m,
                     IF r.remaining_qty > 0
                     THEN <<Entry(o, RestedPrice(p, is_bid))>> ELSE <<>>,
                     [op |-> "match_order", order_id |-> o, book_id |-> b, qty |-> q,
                      price |-> p, is_bid |-> is_bid, arrival |-> arrival,
                      before |-> Manager, remaining_qty |-> r.remaining_qty,
                      match_details |-> r.match_details, fills |-> r.fills],
                     MaxCapOps)

CapNext ==
    \/ CapAddOrder
    \/ CapRemoveOrder
    \/ CapMatchOrder

SpecCapacity == InitCapacity /\ [][CapNext]_vars

\* The inputs of translate_matches.  A 65-byte signature whose bytes differ
\* from one position to the next, 8-byte nonces and expiries, two traders.
SignatureBytes(k) == [i \in 1..65 |-> (k + i) % 256]

U64Max == [i \in 1..8 |-> 255]

NonceAt(i) == <<i, 0, 0, 0, 1, 0, 0, 0>>

MakerTrader == 5

TakerTrader == 7

\* The orders of one trader with every combination of present and absent
\* authentication fields.
OrderInputs(trader, k) ==
    {Order_new(1, 0, 0, a) :
        a \in [trader : {None, Some(trader)},
               nonce : {None, Some(NonceAt(k))},
               expiry : {None, Some(U64Max)},
               signature : {None, Some(SignatureBytes(k))}]}

\* One match, over every combination of authentication fields, both
\* directions, and prices and quantities up to 2^32 - 1.
SingleInputs ==
    {<<MatchDetails_new(mk, tk, q, p, mib)>> :
        mk \in OrderInputs(MakerTrader, 1), tk \in OrderInputs(TakerTrader, 3),
        q \in {1, -1}, p \in WidePrices, mib \in BOOLEAN}

\* The i-th match of a batch: complete, or with the maker's nonce absent.
BatchMatch(i, complete) ==
    MatchDetails_new(
        Order_new(1, 0, 0, [trader |-> Some(MakerTrader),
                            nonce |-> IF complete THEN Some(NonceAt(i)) ELSE None,
                            expiry |-> Some(U64Max),
                            signature |-> Some(SignatureBytes(1))]),
        Order_new(1, 0, 0, [trader |-> Some(TakerTrader), nonce |-> Some(NonceAt(i)),
                            expiry |-> Some(U64Max),
                            signature |-> Some(SignatureBytes(3))]),
        i, 1, TRUE)

BatchInputs ==
    UNION {{[i \in 1..n |-> BatchMatch(i, f[i])] : f \in [1..n -> BOOLEAN]} :
              n \in 0..MaxMatches}

MarketConfigs ==
    {[base_token |-> 1, security_token |-> 2, fee_recipient |-> 3, pool |-> 4,
      signature_type |-> t] : t \in {0, 1}}

InitTranslate ==
    /\ books = OrderBookManager_new.books
    /\ oid_map = OrderBookManager_new.oid_map
    /\ arrival = <<>>
    /\ ops = 0
    /\ api = AppState_new
    /\ \E ms \in SingleInputs \cup BatchInputs, c \in MarketConfigs :
          last = [op |-> "matches", matches |-> ms, market_config |-> c]

TranslateMatches ==
    /\ last.op = "matches"
    /\ last' = [op |-> "translate_matches", matches |-> last.matches,
                market_config |-> last.market_config,
                settlements |-> translate_matches(last.matches, last.market_config)]
    /\ UNCHANGED <<books, oid_map, arrival, ops, api>>

SpecTranslate == InitTranslate /\ [][TranslateMatches]_vars

\* ------------------------------------------------------------- order intake
\* Strings are sequences of one-character strings; a Result is [ok |-> v] or
\* [err |-> e].
Ok(v) == [ok |-> v]

Err(e) == [err |-> e]

IsOk(r) == "ok" \in DOMAIN r

HexLower == <<"0", "1", "2", "3", "4", "5", "6", "7", "8", "9", "a", "b", "c", "d", "e", "f">>

HexUpper == <<"0", "1", "2", "3", "4", "5", "6", "7", "8", "9", "A", "B", "C", "D", "E", "F">>

\* Value of a hex digit of either case, -1 for any other character.
HexVal(c) ==
    IF \E i \in 1..16 : HexLower[i] = c \/ HexUpper[i] = c
    THEN (CHOOSE i \in 1..16 : HexLower[i] = c \/ HexUpper[i] = c) - 1
    ELSE -1

\* hex::decode: an odd length or a character that is no hex digit is an
\* error; otherwise one byte per pair of digits.
hex_decode(s) ==
    IF Len(s) % 2 # 0 THEN Err("OddLength")
    ELSE IF \E i \in 1..Len(s) : HexVal(s[i]) < 0 THEN Err("InvalidHexCharacter")
    ELSE Ok([i \in 1..(Len(s) \div 2) |-> 16 * HexVal(s[2 * i - 1]) + HexVal(s[2 * i])])

\* str::trim_start_matches: strips every leading repetition of pat.
RECURSIVE trim_start_matches(_, _)
trim_start_matches(s, pat) ==
    IF Len(s) >= Len(pat) /\ SubSeq(s, 1, Len(pat)) = pat
    THEN trim_start_matches(SubSeq(s, Len(pat) + 1, Len(s)), pat)
    ELSE s

\* BookId::from_str: the low 32 bits of DefaultHasher (SipHash-1-3 with zero
\* keys) of the name, tabulated for BookNames and RegistryNames.
BookId_from_str(s) ==
    CASE s = "ETH-USD" -> 2118741742
      [] s = "BTC-USD" -> 509573247
      [] s = "BOOK-22878" -> 757418406
      [] s = "BOOK-68040" -> 757418406

\* Order::new_submission: the order carrying the validated fields.
Order_new_submission(qty, price, book_id, trader, nonce, expiry, signature) ==
    [qty |-> qty, price |-> price, level_id |-> 0, book_id |-> book_id,
     trader |-> Some(trader), nonce |-> Some(nonce),
     expiry |-> Some(expiry), signature |-> Some(signature)]

\* Mutant of into_order: validates the price before the quantity.
into_order_price_first(self) ==
    IF self.price = 0 THEN Err("InvalidPrice")
    ELSE IF self.quantity = 0 THEN Err("InvalidQuantity")
    ELSE LET trader_bytes == hex_decode(trim_start_matches(self.trader, <<"0", "x">>))
         IN IF ~IsOk(trader_bytes) \/ Len(trader_bytes.ok) # 20 THEN Err("InvalidTrader")
            ELSE LET sig_bytes == hex_decode(trim_start_matches(self.signature, <<"0", "x">>))
                 IN IF ~IsOk(sig_bytes) THEN Err("InvalidSignature")
                    ELSE LET sig_len == Min(Len(sig_bytes.ok), 65)
                             signature == [i \in 1..65 |->
                                              IF i <= sig_len THEN sig_bytes.ok[i] ELSE 0]
                         IN Ok(Order_new_submission(
                                  self.quantity, self.price, BookId_from_str(self.book_id),
                                  trader_bytes.ok, self.nonce,
                                  IF self.expiry = None THEN U64Max ELSE self.expiry.some,
                                  signature))

into_order(self) ==
    IF self.quantity = 0 THEN Err("InvalidQuantity")
    ELSE IF self.price = 0 THEN Err("InvalidPrice")
    ELSE LET trader_bytes == hex_decode(trim_start_matches(self.trader, <<"0", "x">>))
         IN IF ~IsOk(trader_bytes) \/ Len(trader_bytes.ok) # 20 THEN Err("InvalidTrader")
            ELSE LET sig_bytes == hex_decode(trim_start_matches(self.signature, <<"0", "x">>))
                 IN IF ~IsOk(sig_bytes) THEN Err("InvalidSignature")
                    ELSE LET sig_len == Min(Len(sig_bytes.ok), 65)
                             signature == [i \in 1..65 |->
                                              IF i <= sig_len THEN sig_bytes.ok[i] ELSE 0]
                         IN Ok(Order_new_submission(
                                  self.quantity, self.price, BookId_from_str(self.book_id),
                                  trader_bytes.ok, self.nonce,
                                  IF self.expiry = None THEN U64Max ELSE self.expiry.some,
                                  signature))

process_submission(submission) == into_order(submission)

\* Display of OrderIntakeError.
OrderIntakeError_to_string(e) ==
    CASE e = "InvalidQuantity" -> "Invalid quantity"
      [] e = "InvalidPrice" -> "Invalid price"
      [] e = "InvalidBookId" -> "Invalid book ID"
      [] e = "InvalidTrader" -> "Invalid trader address"
      [] e = "InvalidSignature" -> "Invalid signature"
      [] e = "InvalidNonce" -> "Invalid nonce"

\* Submissions: hex strings of n digits with and without "0x" prefixes, of
\* both cases, of lengths around 20 and 65 bytes, and with a character that
\* is no hex digit.
HexString(digits, n) == [i \in 1..n |-> digits[((i - 1) % 16) + 1]]

WithBadChar(s) == [s EXCEPT ![Len(s)] = "g"]

TraderStrings ==
    {p \o body :
        p \in {<<>>, <<"0", "x">>, <<"0", "x", "0", "x">>},
        body \in {HexString(d, n) : d \in {HexLower, HexUpper},
                                    n \in {0, 2 * 20 - 2, 2 * 20 - 1, 2 * 20, 2 * 20 + 2}}
                   \cup {WithBadChar(HexString(HexLower, 2 * 20))}}

SignatureStrings ==
    {p \o body :
        p \in {<<>>, <<"0", "x">>},
        body \in {HexString(HexLower, n) :
                     n \in {0, 2, 2 * 65 - 2, 2 * 65 - 1, 2 * 65, 2 * 65 + 2}}
                   \cup {WithBadChar(HexString(HexLower, 2 * 65))}}

Submissions ==
    [book_id : BookNames, price : {-1, 0, 1}, quantity : {0, 1}, trader : TraderStrings,
     nonce : {NonceAt(1)}, expiry : {None, Some(NonceAt(2))}, signature : SignatureStrings]

InitIntake ==
    /\ books = OrderBookManager_new.books
    /\ oid_map = OrderBookManager_new.oid_map
    /\ arrival = <<>>
    /\ ops = 0
    /\ api = AppState_new
    /\ \E s \in Submissions : last = [op |-> "submission", submission |-> s]

ProcessSubmission ==
    /\ last.op = "submission"
    /\ last' = [op |-> "process_submission", submission |-> last.submission,
                result |-> process_submission(last.submission)]
    /\ UNCHANGED <<books, oid_map, arrival, ops, api>>

SpecIntake == InitIntake /\ [][ProcessSubmission]_vars

\* ------------------------------------------------------------ HTTP surface
\* BookRegistry::register_book: Err(BookAlreadyExists) for a registered name,
\* otherwise the name is mapped to the hash of the name.
register_book(registry, book_name) ==
    IF registry[book_name] # None
    THEN [registry |-> registry, result |-> Err("BookAlreadyExists")]
    ELSE [registry |-> [registry EXCEPT ![book_name] = Some(BookId_from_str(book_name))],
          result |-> Ok(BookId_from_str(book_name))]

get_book_id(registry, book_name) ==
    IF registry[book_name] # None THEN Ok(registry[book_name].some) ELSE Err("BookNotFound")

\* create_book up to its wait for the orderbooks lock: the registration.  A
\* registered name is answered at once.
create_book_register(state, book_id) ==
    LET r == register_book(state.book_registry, book_id)
    IN IF IsOk(r.result)
       THEN [state |-> [state EXCEPT !.book_registry = r.registry,
                                     !.creating = @ \cup {book_id}],
             response |-> None]
       ELSE [state |-> state,
             response |-> Some([success |-> FALSE, message |-> "Book already exists"])]

\* create_book from the orderbooks lock on.
create_book_insert(state, book_id) ==
    [state |-> [state EXCEPT !.orderbooks[book_id] = OrderBook_new,
                             !.creating = @ \ {book_id}],
     response |-> Some([success |-> TRUE, message |-> "Book created successfully"])]

\* Mutant of submit_order: does not look the book up in the registry.
submit_order_unchecked(state, data) ==
    LET r == process_submission(data)
    IN IF IsOk(r)
       THEN LET book == state.orderbooks[data.book_id]
                added == OrderBook_add_order(book, r.ok, r.ok.price, r.ok.qty)
            IN [state |-> IF book # None
                          THEN [state EXCEPT !.orderbooks[data.book_id] = added.book]
                          ELSE state,
                response |-> [success |-> TRUE,
                              message |-> "Order submitted successfully",
                              order_id |-> Some(0)]]
       ELSE [state |-> state,
             response |-> [success |-> FALSE,
                           message |-> OrderIntakeError_to_string(r.err),
                           order_id |-> None]]

\* submit_order: [state, response] for the request data.
submit_order(state, data) ==
    IF ~IsOk(get_book_id(state.book_registry, data.book_id))
    THEN [state |-> state,
          response |-> [success |-> FALSE, message |-> "Book does not exist",
                        order_id |-> None]]
    ELSE LET r == process_submission(data)
         IN IF IsOk(r)
            THEN LET book == state.orderbooks[data.book_id]
                     added == OrderBook_add_order(book, r.ok, r.ok.price, r.ok.qty)
                 IN [state |-> IF book # None
                               THEN [state EXCEPT !.orderbooks[data.book_id] = added.book]
                               ELSE state,
                     response |-> [success |-> TRUE,
                                   message |-> "Order submitted successfully",
                                   order_id |-> Some(0)]]
            ELSE [state |-> state,
                  response |-> [success |-> FALSE,
                                message |-> OrderIntakeError_to_string(r.err),
                                order_id |-> None]]

\* Requests: both book names, bids, asks and a zero price, a trader of 20 and
\* of 19 bytes, the empty signature.
MaxApiOps == 3

OrderRequests ==
    [book_id : BookNames, price : {-1, 0, 1}, quantity : {1},
     trader : {<<"0", "x">> \o HexString(HexLower, 2 * 20),
               <<"0", "x">> \o HexString(HexLower, 2 * 20 - 2)},
     nonce : {NonceAt(1)}, expiry : {None}, signature : {<<>>}]

InitApi ==
    /\ books = OrderBookManager_new.books
    /\ oid_map = OrderBookManager_new.oid_map
    /\ arrival = <<>>
    /\ ops = 0
    /\ api = AppState_new
    /\ last = [op |-> "start_server"]

ApiCommit(r, result) ==
    /\ ops < MaxApiOps
    /\ api' = r.state
    /\ last' = result
    /\ ops' = ops + 1
    /\ UNCHANGED <<books, oid_map, arrival>>

CreateBookRegister ==
    \E n \in BookNames :
        LET r == create_book_register(api, n)
        IN ApiCommit(r, [op |-> "create_book", book_id |-> n, before |-> api,
                         response |-> r.response])

CreateBookInsert ==
    \E n \in api.creating :
        LET r == create_book_insert(api, n)
        IN ApiCommit(r, [op |-> "create_book", book_id |-> n, before |-> api,
                         response |-> r.response])

SubmitOrder ==
    \E data \in OrderRequests :
        LET r == submit_order(api, data)
        IN ApiCommit(r, [op |-> "submit_order", request |-> data, before |-> api,
                         response |-> r.response])

ApiNext ==
    \/ CreateBookRegister
    \/ CreateBookInsert
    \/ SubmitOrder

SpecApi == InitApi /\ [][ApiNext]_vars

\* ------------------------------------------------------------ BookRegistry
\* The registry alone, over the request names and two more names.  Each call
\* holds the registry's RwLock from its first to its last statement, so
\* concurrent calls are sequences of whole calls.
MaxRegistryOps == 4

RegistryNames == BookNames \cup {"BOOK-22878", "BOOK-68040"}

InitRegistry ==
    /\ books = OrderBookManager_new.books
    /\ oid_map = OrderBookManager_new.oid_map
    /\ arrival = <<>>
    /\ ops = 0
    /\ api = [AppState_new EXCEPT !.book_registry = [n \in RegistryNames |-> None]]
    /\ last = [op |-> "new"]

RegisterBook ==
    \E n \in RegistryNames :
        LET r == register_book(api.book_registry, n)
        IN /\ ops < MaxRegistryOps
           /\ api' = [api EXCEPT !.book_registry = r.registry]
           /\ last' = [op |-> "register_book", book_name |-> n,
                        before |-> api.book_registry, result |-> r.result]
           /\ ops' = ops + 1
           /\ UNCHANGED <<books, oid_map, arrival>>

GetBookId ==
    \E n \in RegistryNames :
        /\ ops < MaxRegistryOps
        /\ last' = [op |-> "get_book_id", book_name |-> n,
                     before |-> api.book_registry,
                     result |-> get_book_id(api.book_registry, n)]
        /\ ops' = ops + 1
        /\ UNCHANGED <<books, oid_map, arrival, api>>

RegistryNext ==
    \/ RegisterBook
    \/ GetBookId

SpecRegistry == InitRegistry /\ [][RegistryNext]_vars

\* --------------------------------------------------------- LevelPool alone
\* The pool of book 0 under any sequence of alloc() and free(id) calls, id
\* any LevelId the pool has handed out.  last.log is the sequence of the
\* calls made so far.
MaxPoolOps == 6

InitPool ==
    /\ books = [OrderBookManager_new.books EXCEPT ![0] = OrderBook_new]
    /\ oid_map = OrderBookManager_new.oid_map
    /\ arrival = <<>>
    /\ ops = 0
    /\ api = AppState_new
    /\ last = [op |-> "new", log |-> <<>>]

PoolAlloc ==
    LET a == LevelPool_alloc(books[0].level_pool)
    IN /\ ops < MaxPoolOps
       /\ books' = [books EXCEPT ![0].level_pool = a.pool]
       /\ last' = [op |-> "alloc", id |-> a.id, before |-> books[0].level_pool,
                    before_log |-> last.log,
                    log |-> Append(last.log, [call |-> "alloc"])]
       /\ ops' = ops + 1
       /\ UNCHANGED <<oid_map, arrival, api>>

PoolFree ==
    \E id \in 0..(Len(books[0].level_pool.levels) - 1) :
        /\ ops < MaxPoolOps
        /\ books' = [books EXCEPT ![0].level_pool = LevelPool_free(@, id)]
        /\ last' = [op |-> "free", id |-> id, before |-> books[0].level_pool,
                     before_log |-> last.log,
                     log |-> Append(last.log, [call |-> "free", id |-> id])]
        /\ ops' = ops + 1
        /\ UNCHANGED <<oid_map, arrival, api>>

PoolNext ==
    \/ PoolAlloc
    \/ PoolFree

SpecPool == InitPool /\ [][PoolNext]_vars

\* ------------------------------------------------------ observation helpers
Live(om) == {o \in OrderIds : om[o] # None}

RECURSIVE QtySum(_, _)
QtySum(om, S) ==
    IF S = {} THEN 0
    ELSE LET o == CHOOSE x \in S : TRUE IN om[o].qty + QtySum(om, S \ {o})

\* The live orders of book b that reference level id.
OrdersAt(om, b, id) == {o \in Live(om) : om[o].book_id = b /\ om[o].level_id = id}

Range(s) == {s[i] : i \in 1..Len(s)}

LevelAt(book, id) == book.level_pool.levels[id + 1]

RECURSIVE SizeSum(_, _)
SizeSum(book, levels) ==
    IF levels = <<>> THEN 0
    ELSE LevelAt(book, Head(levels).level_id).size + SizeSum(book, Tail(levels))

IsMatch == last.op = "match_order"

\* The side the makers of the last match_order call rest on.
MakerSide(book) == IF last.is_bid THEN book.asks ELSE book.bids

\* Signed price order o was inserted at, by the arrival log of the last call.
ArrivalPos(o) == CHOOSE k \in 1..Len(last.arrival) : last.arrival[k].oid = o

RestPrice(o) == last.arrival[ArrivalPos(o)].price

\* External price fill f's maker rests at.
MakerPrice(f) == Price_absolute(RestPrice(f.maker))

\* In the manager before fill f, an order with quantity rests at signed price
\* `price` of the target book.
HoldsQty(f, price) ==
    \E o \in Live(f.before.oid_map) :
        /\ f.before.oid_map[o].book_id = last.book_id
        /\ f.before.oid_map[o].qty > 0
        /\ RestPrice(o) = price

\* a is a strictly better maker price than b for the taker of the last call.
Better(a, b) == IF last.is_bid THEN a < b ELSE a > b

\* ------------------------------------------------------------------ properties

\* C1: match_order appends exactly one MatchDetails for every maker it executes
\* against, partial or complete fill alike, with exec_qty = min(remaining taker
\* quantity, maker quantity) at the time of the fill.
C1_OneMatchPerFill ==
    IsMatch =>
        /\ Len(last.match_details) = Len(last.fills)
        /\ \A i \in 1..Len(last.fills) :
              i <= Len(last.match_details) =>
                  last.match_details[i].exec_qty
                      = Min(last.fills[i].remaining_qty, last.fills[i].match_qty)

\* C2: price priority.  Within one match_order call the makers that receive
\* quantity are executed in non-worsening price order, and none of them is
\* executed while a linked level of the maker side with a strictly better
\* price still holds quantity.
C2_PricePriority ==
    IsMatch =>
        /\ \A i, j \in 1..Len(last.fills) :
              (i < j /\ last.fills[i].exec_qty > 0 /\ last.fills[j].exec_qty > 0)
                  => ~Better(MakerPrice(last.fills[j]), MakerPrice(last.fills[i]))
        /\ \A i \in 1..Len(last.fills) :
              LET f == last.fills[i]
                  book == f.before.books[last.book_id]
              IN f.exec_qty > 0 =>
                    \A h \in Range(MakerSide(book)) :
                        HoldsQty(f, h.price)
                            => ~Better(Price_absolute(h.price), MakerPrice(f))

\* C3: time priority.  Every maker executed by match_order is the earliest
\* inserted of the live orders resting on its level, whatever the order ids.
C3_TimePriority ==
    IsMatch =>
        \A i \in 1..Len(last.fills) :
            LET f == last.fills[i]
                om == f.before.oid_map
                peers == OrdersAt(om, last.book_id, om[f.maker].level_id)
            IN \A o \in peers : ArrivalPos(f.maker) <= ArrivalPos(o)

\* C4: no crossed book at rest.  Whenever both sides of a book are non-empty
\* the best bid's external price is strictly below the best ask's.
C4_NoCrossedBook ==
    \A b \in BookIds :
        LET bid == get_best_bid(Manager, b)
            ask == get_best_ask(Manager, b)
        IN (bid # None /\ ask # None)
               => Price_absolute(bid.some) < Price_absolute(ask.some)

\* C5: level-size consistency.  The size of every linked level equals the sum
\* of the quantities of the live orders of that book that reference it.
C5_LevelSizeConsistent ==
    \A b \in BookIds :
        books[b] # None =>
            \A h \in Range(books[b].bids) \cup Range(books[b].asks) :
                LevelAt(books[b], h.level_id).size
                    = QtySum(oid_map, OrdersAt(oid_map, b, h.level_id))

\* C6: after any public call no linked level has size 0 (a level whose size
\* dropped to zero was unlinked and freed by the same call).
C6_NoEmptyLinkedLevel ==
    \A b \in BookIds :
        books[b] # None =>
            \A h \in Range(books[b].bids) \cup Range(books[b].asks) :
                LevelAt(books[b], h.level_id).size # 0

\* Strictly decreasing in signed price.
StrictlyDescending(levels) ==
    \A i, j \in 1..Len(levels) : i < j => levels[i].price > levels[j].price

\* C7: every side sequence is strictly decreasing in signed price (so no price
\* is linked twice on a side) and its head is the side's best price: the
\* highest external bid, the lowest external ask.
C7_SidesSorted ==
    \A b \in BookIds :
        books[b] # None =>
            /\ StrictlyDescending(books[b].bids)
            /\ StrictlyDescending(books[b].asks)
            /\ IF books[b].bids = <<>> THEN get_best_bid(Manager, b) = None
               ELSE /\ get_best_bid(Manager, b) # None
                    /\ \A h \in Range(books[b].bids) :
                          Price_absolute(get_best_bid(Manager, b).some)
                              >= Price_absolute(h.price)
            /\ IF books[b].asks = <<>> THEN get_best_ask(Manager, b) = None
               ELSE /\ get_best_ask(Manager, b) # None
                    /\ \A h \in Range(books[b].asks) :
                          Price_absolute(get_best_ask(Manager, b).some)
                              <= Price_absolute(h.price)

\* C7 witness: a book with two ask levels and a bid level linked.
C7_Witness ==
    \E b \in BookIds :
        /\ books[b] # None
        /\ Len(books[b].asks) >= 2
        /\ Len(books[b].bids) >= 1

\* C8: every live order references a level that is not in the free-list and
\* is linked in its book on the side given by the sign of the level's price.
C8_OrdersReferenceLinkedLevels ==
    \A o \in Live(oid_map) :
        LET b == oid_map[o].book_id
            id == oid_map[o].level_id
        IN /\ books[b] # None
           /\ id < Len(books[b].level_pool.levels)
           /\ id \notin Range(books[b].level_pool.free_list)
           /\ \E h \in Range(OrderBook_side(books[b], LevelAt(books[b], id).price)) :
                 h.level_id = id

\* Quantity of order o in index om, 0 when it is not live.
QtyOf(om, o) == IF om[o] = None THEN 0 ELSE om[o].qty

\* C9: conservation per fill.  Each fill lowers the maker's quantity, the size
\* of the maker's level and the total size of the maker side by exec_qty, and
\* changes no other order, level, side or book.
C9_FillConservation ==
    IsMatch =>
        \A i \in 1..Len(last.fills) :
            LET f == last.fills[i]
                b == last.book_id
                bb == f.before.books[b]
                ab == f.after.books[b]
                id == f.before.oid_map[f.maker].level_id
            IN /\ SizeSum(ab, MakerSide(ab)) = SizeSum(bb, MakerSide(bb)) - f.exec_qty
               /\ LevelAt(ab, id).size = LevelAt(bb, id).size - f.exec_qty
               /\ QtyOf(f.after.oid_map, f.maker)
                      = QtyOf(f.before.oid_map, f.maker) - f.exec_qty
               /\ \A o \in OrderIds \ {f.maker} : f.after.oid_map[o] = f.before.oid_map[o]
               /\ Len(ab.level_pool.levels) = Len(bb.level_pool.levels)
               /\ \A k \in 0..(Len(bb.level_pool.levels) - 1) :
                     k # id => LevelAt(ab, k) = LevelAt(bb, k)
               /\ IF last.is_bid THEN ab.bids = bb.bids ELSE ab.asks = bb.asks
               /\ \A c \in BookIds \ {b} : f.after.books[c] = f.before.books[c]

\* C10: partial fill of the maker.  A crossing taker of quantity q smaller than
\* the first maker's quantity m leaves remaining = 0, the maker live with
\* m - q, the taker's id out of the index and the book, and one match of q.
C10_PartialFill ==
    (IsMatch /\ last.fills # <<>> /\ last.qty < last.fills[1].match_qty) =>
        LET f == last.fills[1]
        IN /\ last.remaining_qty = 0
           /\ oid_map[f.maker] # None
           /\ oid_map[f.maker].qty = f.match_qty - last.qty
           /\ oid_map[last.order_id] = None
           /\ arrival = last.arrival
           /\ IF last.is_bid
              THEN books[last.book_id].bids = f.before.books[last.book_id].bids
              ELSE books[last.book_id].asks = f.before.books[last.book_id].asks
           /\ Len(last.match_details) = 1
           /\ last.match_details[1].exec_qty = last.qty

\* C10 witness: a crossing taker smaller than the first maker.
C10_Witness ==
    IsMatch /\ last.fills # <<>> /\ last.qty < last.fills[1].match_qty

\* The side sequence of book b of manager m that a taker with flag is_bid
\* matches against (the asks for a bid), empty when the book does not exist.
OppositeSide(m, b, is_bid) ==
    IF m.books[b] = None THEN <<>>
    ELSE IF is_bid THEN m.books[b].asks ELSE m.books[b].bids

\* The side sequence a taker with flag is_bid rests on.
OwnSide(m, b, is_bid) == OppositeSide(m, b, ~is_bid)

\* The level records of the handles of side sequence `side` of book b.
SideLevels(m, b, side) == [i \in 1..Len(side) |-> LevelAt(m.books[b], side[i].level_id)]

\* The external price p of a taker crosses the best opposite price of book b.
Crosses(m, b, p, is_bid) ==
    LET best == IF is_bid THEN get_best_ask(m, b) ELSE get_best_bid(m, b)
    IN /\ best # None
       /\ IF is_bid THEN p >= Price_absolute(best.some)
          ELSE p <= Price_absolute(best.some)

\* Order o of the current state rests in book b at signed price `price` with
\* quantity q: its level is linked at that price on the side of the sign.
RestsAt(o, b, price, q) ==
    /\ oid_map[o] # None
    /\ oid_map[o].book_id = b
    /\ oid_map[o].qty = q
    /\ \E h \in Range(OwnSide(Manager, b, Price_is_bid(price))) :
          /\ h.price = price
          /\ h.level_id = oid_map[o].level_id
    /\ LevelAt(books[b], oid_map[o].level_id).price = price

AuthFields(order) ==
    [f \in {"trader", "nonce", "expiry", "signature"} |-> order[f]]

\* C11: no cross.  A match_order call whose price does not cross the best
\* opposite price (or that finds the opposite side empty) returns
\* remaining = qty and no match, leaves the opposite side unchanged, and rests
\* the taker with its full quantity at its own price on its own side.
C11_NoCrossRests ==
    (IsMatch /\ ~Crosses(last.before, last.book_id, last.price, last.is_bid)) =>
        LET b == last.book_id
            before == OppositeSide(last.before, b, last.is_bid)
            after == OppositeSide(Manager, b, last.is_bid)
        IN /\ last.remaining_qty = last.qty
           /\ last.match_details = <<>>
           /\ last.fills = <<>>
           /\ after = before
           /\ SideLevels(Manager, b, after) = SideLevels(last.before, b, before)
           /\ RestsAt(last.order_id, b, Price_from_u32(last.price, last.is_bid), last.qty)
           /\ AuthFields(oid_map[last.order_id]) = AuthOf(last.order_id)

\* External price p of a taker with flag is_bid crosses the signed price
\* `price` of an opposite-side level.
CrossesPrice(p, is_bid, price) ==
    /\ Price_is_bid(price) # is_bid
    /\ IF is_bid THEN p >= Price_absolute(price) ELSE p <= Price_absolute(price)

\* The orders of the target book that rested, before the last match_order
\* call, at a price the taker crosses.
CrossingMakers ==
    {o \in Live(last.before.oid_map) :
        /\ last.before.oid_map[o].book_id = last.book_id
        /\ CrossesPrice(last.price, last.is_bid, RestPrice(o))}

Max(a, b) == IF a >= b THEN a ELSE b

\* C12: sweep and residual.  With T the total quantity resting at crossing
\* prices, match_order returns remaining = max(0, q - T); when q >= T every
\* crossing maker leaves the index and every crossing level is unlinked; a
\* positive remainder is rested as exactly one new order (id order_id, the
\* remainder, the taker's authentication fields, the taker's side and price)
\* and a zero remainder inserts nothing.
C12_SweepAndResidual ==
    IsMatch =>
        LET b == last.book_id
            q == last.qty
            T == QtySum(last.before.oid_map, CrossingMakers)
            new == Live(oid_map) \ Live(last.before.oid_map)
        IN /\ last.remaining_qty = Max(0, q - T)
           /\ q >= T =>
                 /\ \A o \in CrossingMakers : oid_map[o] = None
                 /\ \A h \in Range(OppositeSide(Manager, b, last.is_bid)) :
                       ~CrossesPrice(last.price, last.is_bid, h.price)
           /\ last.remaining_qty > 0 =>
                 /\ new = {last.order_id}
                 /\ RestsAt(last.order_id, b, Price_from_u32(last.price, last.is_bid),
                            last.remaining_qty)
                 /\ AuthFields(oid_map[last.order_id]) = AuthOf(last.order_id)
           /\ last.remaining_qty = 0 =>
                 /\ new = {}
                 /\ OwnSide(Manager, b, last.is_bid) = OwnSide(last.before, b, last.is_bid)

\* C13: every MatchDetails of a match_order call has exec_price equal to the
\* taker's external limit price and maker_is_buyer equal to the negation of
\* the taker's is_bid flag.
C13_ExecPriceIsTakerLimit ==
    IsMatch =>
        \A i \in 1..Len(last.match_details) :
            /\ last.match_details[i].exec_price = last.price
            /\ last.match_details[i].maker_is_buyer = ~last.is_bid

IsReplace == last.op = "replace_order"

\* Side sequence of book b of manager m: the bids when is_bid, else the asks.
SideSeq(m, b, is_bid) == OwnSide(m, b, is_bid)

\* C14: replace_order on a live old order removes the old order from its
\* level and from the index and inserts an order under new_id in the same
\* book, on the side the old order rested on, with quantity new_qty at
\* external price new_price and with no authentication field.
C14_ReplaceLiveOrder ==
    (IsReplace /\ last.before.oid_map[last.order_id] # None) =>
        LET old == last.before.oid_map[last.order_id]
            b == old.book_id
            was_bid == Price_is_bid(RestPrice(last.order_id))
            new == last.new_order_id
            others == OrdersAt(last.before.oid_map, b, old.level_id) \ {last.order_id}
        IN /\ new # last.order_id => oid_map[last.order_id] = None
           /\ Live(oid_map) = (Live(last.before.oid_map) \ {last.order_id}) \cup {new}
           /\ \A o \in OrderIds \ {last.order_id, new} :
                 oid_map[o] = last.before.oid_map[o]
           /\ oid_map[new] # None
           /\ oid_map[new].book_id = b
           /\ oid_map[new].qty = last.new_qty
           /\ AuthFields(oid_map[new]) = NoAuth
           /\ \E h \in Range(SideSeq(Manager, b, was_bid)) :
                 /\ h.level_id = oid_map[new].level_id
                 /\ Price_is_bid(h.price) = was_bid
                 /\ Price_absolute(h.price) = last.new_price
           /\ \A h \in Range(SideSeq(Manager, b, was_bid)) :
                 h.price = RestPrice(last.order_id) =>
                     LevelAt(books[b], h.level_id).size
                         = QtySum(last.before.oid_map, others)
                           + (IF Price_absolute(h.price) = last.new_price
                              THEN last.new_qty ELSE 0)

\* C15: remove_order, cancel_order, execute_order and replace_order on an
\* OrderId that is not live change neither the order index nor any book
\* (side sequences, level sizes, level pool), and create no order.
C15_DeadIdIsNoOp ==
    (/\ last.op \in {"remove_order", "cancel_order", "execute_order", "replace_order"}
     /\ last.before.oid_map[last.order_id] = None) =>
        /\ oid_map = last.before.oid_map
        /\ books = last.before.books

\* C16: an add_order or match_order call whose order id is already live
\* mutates neither a book nor the order index: the live order keeps its index
\* slot and no level size changes.
C16_LiveIdCallMutatesNothing ==
    (/\ last.op \in {"add_order", "match_order"}
     /\ last.before.oid_map[last.order_id] # None) =>
        /\ oid_map = last.before.oid_map
        /\ books = last.before.books

IsTranslate == last.op = "translate_matches"

\* The order carries trader, signature, nonce and expiry.
Authenticated(order) ==
    /\ order.trader # None
    /\ order.signature # None
    /\ order.nonce # None
    /\ order.expiry # None

\* C17: translate_matches drops a match if and only if its maker or its taker
\* lacks one of trader, signature, nonce, expiry: the number of settlements is
\* the number of matches whose two orders carry all four fields.
C17_DropsIffFieldMissing ==
    IsTranslate =>
        Len(last.settlements)
            = Cardinality({i \in 1..Len(last.matches) :
                              /\ Authenticated(last.matches[i].maker_order)
                              /\ Authenticated(last.matches[i].taker_order)})

\* The settlement of match md under the configuration of the last call, or
\* None when the match is dropped.
Settled(md) ==
    translate_to_settlement(md.maker_order, md.taker_order, md.exec_qty,
                            md.exec_price, md.maker_is_buyer, last.market_config)

\* Indices of the matches of the last call that are not dropped.
Retained == {i \in 1..Len(last.matches) : Settled(last.matches[i]) # None}

\* C18: translate_matches preserves order.  Each retained match yields exactly
\* one settlement, and the settlements follow the input order of the matches
\* they come from.
C18_OrderPreserved ==
    IsTranslate =>
        /\ Len(last.settlements) = Cardinality(Retained)
        /\ \E source \in [1..Len(last.settlements) -> Retained] :
              /\ \A j, k \in 1..Len(last.settlements) : j < k => source[j] < source[k]
              /\ \A k \in 1..Len(last.settlements) :
                    last.settlements[k] = Settled(last.matches[source[k]]).some

\* C18 witness: a batch of three matches whose second one is dropped.
C18_Witness ==
    /\ IsTranslate
    /\ Len(last.matches) = 3
    /\ Retained = {1, 3}
    /\ Len(last.settlements) = 2

\* Index of the match the k-th settlement of the last call comes from.
SourceOf(k) ==
    CHOOSE i \in Retained : Cardinality({j \in Retained : j < i}) = k - 1

\* The 16 bytes of the exact product of the u32 values with patterns p and q,
\* by algebra on the patterns: for a, b > 0,
\*   (2^32 - a) * q         = (q - 1) * 2^32 + (2^32 - a * q)
\*   (2^32 - a) * (2^32 - b) = (2^32 - (a + b)) * 2^32 + a * b
Product(p, q) ==
    IF p >= 0 /\ q >= 0 THEN Bytes4(p * q) \o Zeros(12)
    ELSE IF p < 0 /\ q < 0 THEN Bytes4(p * q) \o U32Bytes(p + q) \o Zeros(8)
    ELSE IF q = 0 \/ p = 0 THEN Zeros(16)
    ELSE IF p < 0 THEN U32Bytes(p * q) \o Bytes4(q - 1) \o Zeros(8)
    ELSE U32Bytes(p * q) \o Bytes4(p - 1) \o Zeros(8)

\* C19: in every settlement, a buying maker gives base_token and receives
\* security_token, with maker_amount = exec_price * exec_qty and
\* taker_amount = exec_qty; a selling maker has tokens and amounts exchanged.
\* The product is the exact product of the two u32 values.
C19_TokensAndAmounts ==
    IsTranslate =>
        \A k \in 1..Len(last.settlements) :
            LET md == last.matches[SourceOf(k)]
                st == last.settlements[k]
                cfg == last.market_config
                product == Product(md.exec_price, md.exec_qty)
                quantity == U32Bytes(md.exec_qty) \o Zeros(12)
            IN IF md.maker_is_buyer
               THEN /\ st.maker_token = cfg.base_token
                    /\ st.taker_token = cfg.security_token
                    /\ st.maker_amount = product
                    /\ st.taker_amount = quantity
               ELSE /\ st.maker_token = cfg.security_token
                    /\ st.taker_token = cfg.base_token
                    /\ st.maker_amount = quantity
                    /\ st.taker_amount = product

\* C19 witness: a settled match with price and quantity both 2^32 - 1.
C19_Witness ==
    /\ IsTranslate
    /\ Len(last.settlements) = 1
    /\ last.matches[1].exec_price = -1
    /\ last.matches[1].exec_qty = -1
    /\ last.matches[1].maker_is_buyer

\* The settlement signature the 65 bytes sig split into.
SplitOf(sig) ==
    [signature_type |-> last.market_config.signature_type,
     r |-> [i \in 1..32 |-> sig[i]],
     s |-> [i \in 1..32 |-> sig[32 + i]],
     v |-> sig[65]]

\* C20: in every settlement each side's signature is r = bytes 0..32,
\* s = bytes 32..64, v = byte 64 of the order's signature with the
\* configuration's signature_type; expiration is the maker's expiry, salt the
\* maker's nonce widened to 128 bits, fee_recipient and pool the
\* configuration's.
C20_SignatureExpirySalt ==
    IsTranslate =>
        \A k \in 1..Len(last.settlements) :
            LET md == last.matches[SourceOf(k)]
                st == last.settlements[k]
                nonce == md.maker_order.nonce.some
            IN /\ st.maker_signature = SplitOf(md.maker_order.signature.some)
               /\ st.taker_signature = SplitOf(md.taker_order.signature.some)
               /\ st.expiration = md.maker_order.expiry.some
               /\ st.salt = [i \in 1..16 |-> IF i <= 8 THEN nonce[i] ELSE 0]
               /\ st.fee_recipient = last.market_config.fee_recipient
               /\ st.pool = last.market_config.pool

\* C20 witness: a settlement under a configuration with signature_type 1.
C20_Witness ==
    /\ IsTranslate
    /\ Len(last.settlements) >= 1
    /\ last.market_config.signature_type = 1
    /\ last.settlements[1].maker_signature.v = last.matches[SourceOf(1)].maker_order.signature.some[65]

\* Signed price at which the live order o of the current state was inserted.
RestingPrice(o) == arrival[CHOOSE k \in 1..Len(arrival) : arrival[k].oid = o].price

\* The live orders of book b resting at signed price `price`.
RestingAt(b, price) ==
    {o \in Live(oid_map) : oid_map[o].book_id = b /\ RestingPrice(o) = price}

SignedPrices == {x \in (0 - MaxPrice)..MaxPrice : x # 0}

\* C21: get_next_match returns the lowest OrderId, with its quantity, among
\* the live orders of the book that rest at the best level of the side
\* opposite to is_bid, when that level's price crosses; it returns none when
\* the book is absent, the opposite side is empty or the best level does not
\* cross, and never an order of another book or level.
C21_NextMatch ==
    \A b \in BookIds, is_bid \in BOOLEAN, price \in SignedPrices :
        LET r == get_next_match(Manager, b, is_bid, price)
            side == OppositeSide(Manager, b, is_bid)
            at == RestingAt(b, Head(side).price)
            first == CHOOSE o \in at : \A x \in at : o <= x
        IN IF side = <<>> THEN r = None
           ELSE IF ~(IF is_bid THEN Abs(price) >= Abs(Head(side).price)
                     ELSE Abs(price) <= Abs(Head(side).price))
                THEN r = None
                ELSE /\ at # {}
                     /\ r = Some([oid |-> first, qty |-> oid_map[first].qty])

\* The bid and ask sequences of book b of manager m, empty when the book does
\* not exist.
Sides(m, b) ==
    IF m.books[b] = None THEN [bids |-> <<>>, asks |-> <<>>]
    ELSE [bids |-> m.books[b].bids, asks |-> m.books[b].asks]

\* The sizes of the linked levels of book b of manager m, side by side.
LinkedSizes(m, b) ==
    LET sd == Sides(m, b)
        size(h) == LevelAt(m.books[b], h.level_id).size
    IN [bids |-> [i \in 1..Len(sd.bids) |-> size(sd.bids[i])],
        asks |-> [i \in 1..Len(sd.asks) |-> size(sd.asks[i])]]

\* C22: round trip.  In every reachable state, add_order of an order whose id
\* is not live followed by remove_order of that id restores the side
\* sequences of every book, the sizes of all linked levels and the order
\* index.
C22_AddRemoveRoundTrip ==
    \A o \in OrderIds, b \in BookIds, q \in Qtys, p \in Prices, is_bid \in BOOLEAN :
        oid_map[o] = None =>
            LET m == remove_order(add_order(Manager, o, b, q, p, is_bid, AuthOf(o)), o)
            IN /\ ~m.panic
               /\ m.oid_map = oid_map
               /\ \A c \in BookIds :
                     /\ Sides(m, c) = Sides(Manager, c)
                     /\ LinkedSizes(m, c) = LinkedSizes(Manager, c)

\* add_order of order o with the arguments of record a.
AddWith(m, o, a) == add_order(m, o, a.book_id, a.qty, a.price, a.is_bid, AuthOf(o))

AddArgs == [book_id : BookIds, qty : Qtys, price : Prices, is_bid : BOOLEAN]

\* C23: commutativity of insertion.  For two orders with distinct ids that are
\* not live, adding them in either order yields the same manager: the same
\* side sequences with the same LevelId at each price, the same level prices
\* and sizes, and the same order index.
C23_AddCommutes ==
    \A o1, o2 \in OrderIds, a1, a2 \in AddArgs :
        (o1 < o2 /\ oid_map[o1] = None /\ oid_map[o2] = None) =>
            LET m12 == AddWith(AddWith(Manager, o1, a1), o2, a2)
                m21 == AddWith(AddWith(Manager, o2, a2), o1, a1)
            IN /\ m12.books = m21.books
               /\ m12.oid_map = m21.oid_map

IsExecute == last.op = "execute_order"

\* The levels of sequence `side` of book `book` other than the one linked at
\* signed price `price`, each with its handle and its size.
RECURSIVE OtherLevels(_, _, _)
OtherLevels(book, side, price) ==
    IF side = <<>> THEN <<>>
    ELSE IF Head(side).price = price THEN OtherLevels(book, Tail(side), price)
         ELSE <<[handle |-> Head(side), size |-> LevelAt(book, Head(side).level_id).size]>>
              \o OtherLevels(book, Tail(side), price)

\* C24: execute_order on a live order.  With qty equal to the order's
\* quantity the order leaves its level and the index; with a smaller qty it
\* stays live with its quantity and its level's size both decreased by qty.
\* No other order and no other level changes.
C24_ExecuteOrder ==
    (IsExecute /\ last.before.oid_map[last.order_id] # None) =>
        LET o == last.order_id
            old == last.before.oid_map[o]
            b == old.book_id
            id == old.level_id
            bb == last.before.books[b]
        IN /\ \A x \in OrderIds \ {o} : oid_map[x] = last.before.oid_map[x]
           /\ \A c \in BookIds \ {b} : books[c] = last.before.books[c]
           /\ Len(books[b].level_pool.levels) = Len(bb.level_pool.levels)
           /\ \A k \in 0..(Len(bb.level_pool.levels) - 1) :
                 k # id => LevelAt(books[b], k) = LevelAt(bb, k)
           /\ LevelAt(books[b], id).size = LevelAt(bb, id).size - last.qty
           /\ LevelAt(books[b], id).price = LevelAt(bb, id).price
           /\ OtherLevels(books[b], books[b].bids, RestPrice(o))
                  = OtherLevels(bb, bb.bids, RestPrice(o))
           /\ OtherLevels(books[b], books[b].asks, RestPrice(o))
                  = OtherLevels(bb, bb.asks, RestPrice(o))
           /\ IF last.qty = old.qty
              THEN oid_map[o] = None
              ELSE /\ oid_map[o] = [old EXCEPT !.qty = @ - last.qty]
                   /\ books[b].bids = bb.bids
                   /\ books[b].asks = bb.asks

\* C25: the capacities are initial sizes, not limits: add_order and
\* match_order with a fresh order id succeed for every book id and every order
\* id, also at and past MAX_BOOKS and INITIAL_ORDER_COUNT; afterwards the book
\* exists and the order (match_order: its remainder) is in the index.
C25_CapacitiesGrow ==
    \A o \in CapOrderIds, b \in CapBookIds, q \in Qtys, p \in Prices, is_bid \in BOOLEAN :
        oid_map[o] = None =>
            LET a == add_order(Manager, o, b, q, p, is_bid, AuthOf(o))
                r == match_order(Manager, o, b, q, p, is_bid, AuthOf(o))
            IN /\ ~a.panic
               /\ Books_get(a.books, b) # None
               /\ OidMap_get(a.oid_map, o) # None
               /\ ~r.m.panic
               /\ r.remaining_qty > 0 => /\ Books_get(r.m.books, b) # None
                                         /\ OidMap_get(r.m.oid_map, o) # None

\* C26: a submission with quantity 0 is rejected with InvalidQuantity,
\* whatever its price, trader, signature and expiry hold, and yields no Order.
IsIntake == last.op = "process_submission"

C26_ZeroQuantityRejected ==
    IsIntake /\ last.submission.quantity = 0 => last.result = Err("InvalidQuantity")

\* C26 witness: a zero-quantity submission that also breaks the price, trader
\* and signature rules has been rejected for its quantity.
C26_Witness ==
    /\ IsIntake
    /\ last.submission.quantity = 0
    /\ last.submission.price = 0
    /\ ~IsOk(hex_decode(trim_start_matches(last.submission.trader, <<"0", "x">>)))
    /\ ~IsOk(hex_decode(trim_start_matches(last.submission.signature, <<"0", "x">>)))
    /\ last.result = Err("InvalidQuantity")

\* C27: with a non-zero quantity, a submission is accepted only if its price
\* is not 0, its trader decodes to exactly 20 bytes and its signature decodes
\* to at most 65 bytes, which the order carries padded with zeros to 65; with
\* a non-zero price, a trader that decodes to another length is InvalidTrader
\* and, the trader being valid, a signature that decodes to more than 65 bytes
\* is InvalidSignature; an absent expiry is carried as u64::MAX.
DecodedTrader == hex_decode(trim_start_matches(last.submission.trader, <<"0", "x">>))

DecodedSignature == hex_decode(trim_start_matches(last.submission.signature, <<"0", "x">>))

C27_IntakeRules ==
    IsIntake /\ last.submission.quantity # 0 =>
        LET sub == last.submission
            trader_ok == IsOk(DecodedTrader) /\ Len(DecodedTrader.ok) = 20
        IN /\ IsOk(last.result) =>
                 /\ sub.price # 0
                 /\ trader_ok
                 /\ last.result.ok.trader = Some(DecodedTrader.ok)
                 /\ IsOk(DecodedSignature)
                 /\ Len(DecodedSignature.ok) <= 65
                 /\ last.result.ok.signature =
                        Some(DecodedSignature.ok \o Zeros(65 - Len(DecodedSignature.ok)))
                 /\ sub.expiry = None => last.result.ok.expiry = Some(U64Max)
                 /\ sub.expiry # None => last.result.ok.expiry = sub.expiry
           /\ sub.price # 0 /\ IsOk(DecodedTrader) /\ Len(DecodedTrader.ok) # 20
                 => last.result = Err("InvalidTrader")
           /\ sub.price # 0 /\ trader_ok /\ IsOk(DecodedSignature)
                 /\ Len(DecodedSignature.ok) > 65
                 => last.result = Err("InvalidSignature")

\* C28 (as stated): a well-formed order posted to a freshly started server,
\* on which no book has been created, is answered with success = true.
IsSubmit == last.op = "submit_order"

WellFormed(data) ==
    LET trader == hex_decode(trim_start_matches(data.trader, <<"0", "x">>))
    IN /\ data.price # 0
       /\ data.quantity # 0
       /\ IsOk(trader) /\ Len(trader.ok) = 20
       /\ IsOk(hex_decode(trim_start_matches(data.signature, <<"0", "x">>)))

Calls ==
    [op : {"add_order", "match_order"}, order_id : OrderIds, new_order_id : {0},
     book_id : BookIds, qty : Qtys, price : Prices, is_bid : BOOLEAN]
    \cup [op : {"remove_order"}, order_id : OrderIds, new_order_id : {0},
          book_id : {0}, qty : {0}, price : {0}, is_bid : {FALSE}]
    \cup [op : {"cancel_order", "execute_order"}, order_id : OrderIds, new_order_id : {0},
          book_id : {0}, qty : Qtys, price : {0}, is_bid : {FALSE}]
    \cup [op : {"replace_order"}, order_id : OrderIds, new_order_id : OrderIds,
          book_id : {0}, qty : Qtys, price : Prices, is_bid : {FALSE}]

Apply(m, c) ==
    CASE c.op = "add_order" ->
            add_order(m, c.order_id, c.book_id, c.qty, c.price, c.is_bid, AuthOf(c.order_id))
      [] c.op = "match_order" ->
            match_order(m, c.order_id, c.book_id, c.qty, c.price, c.is_bid,
                        AuthOf(c.order_id)).m
      [] c.op = "remove_order" -> remove_order(m, c.order_id)
      [] c.op = "cancel_order" -> cancel_order(m, c.order_id, c.qty)
      [] c.op = "execute_order" -> execute_order(m, c.order_id, c.qty)
      [] c.op = "replace_order" ->
            replace_order(m, c.order_id, c.new_order_id, c.qty, c.price)

\* The book a call targets: the named book, or the book that owns the named
\* live order; None for a call on an order that is not live.
TargetBook(m, c) ==
    IF c.op \in {"add_order", "match_order"} THEN Some(c.book_id)
    ELSE IF m.oid_map[c.order_id] # None THEN Some(m.oid_map[c.order_id].book_id)
    ELSE None

\* The callers' contract for call c on manager m.
Allowed(m, c) ==
    /\ ~m.panic
    /\ c.op \in {"add_order", "match_order"} => m.oid_map[c.order_id] = None
    /\ c.op \in {"cancel_order", "execute_order"} =>
          (m.oid_map[c.order_id] # None => c.qty <= m.oid_map[c.order_id].qty)
    /\ c.op = "replace_order" =>
          c.new_order_id = c.order_id \/ m.oid_map[c.new_order_id] = None

\* The last call as a record of Calls.
LastCall ==
    [op |-> last.op, order_id |-> last.order_id,
     new_order_id |-> IF last.op = "replace_order" THEN last.new_order_id ELSE 0,
     book_id |-> IF last.op \in {"add_order", "match_order"} THEN last.book_id ELSE 0,
     qty |-> IF last.op = "replace_order" THEN last.new_qty
             ELSE IF last.op = "remove_order" THEN 0 ELSE last.qty,
     price |-> IF last.op = "replace_order" THEN last.new_price
               ELSE IF last.op \in {"add_order", "match_order"} THEN last.price ELSE 0,
     is_bid |-> IF last.op \in {"add_order", "match_order"} THEN last.is_bid ELSE FALSE]

IsCall == last.op \in {"add_order", "match_order", "remove_order", "cancel_order",
                       "execute_order", "replace_order"}

\* C29: cross-book isolation.  A call that targets book b leaves every other
\* book (side sequences, level sizes, level pool) and every order of another
\* book in the index as they were; and the call commutes with every call that
\* targets a different book: made in either order from the state before, the
\* two calls yield the same books and the same index.
C29_BookIsolation ==
    (IsCall /\ TargetBook(last.before, LastCall) # None) =>
        LET before == last.before
            b == TargetBook(before, LastCall).some
        IN /\ \A c \in BookIds \ {b} : books[c] = before.books[c]
           /\ \A x \in OrderIds :
                 (before.oid_map[x] # None /\ before.oid_map[x].book_id # b)
                     => oid_map[x] = before.oid_map[x]
           /\ \A c2 \in Calls :
                 LET m2 == Apply(before, c2)
                 IN (/\ TargetBook(before, c2) # None
                     /\ TargetBook(before, c2) # Some(b)
                     /\ Allowed(before, c2)
                     /\ Allowed(Manager, c2)
                     /\ TargetBook(Manager, c2) = TargetBook(before, c2)
                     /\ Allowed(m2, LastCall)
                     /\ TargetBook(m2, LastCall) = Some(b))
                    => LET m12 == Apply(Manager, c2)
                           m21 == Apply(m2, LastCall)
                       IN /\ m12.books = m21.books
                          /\ m12.oid_map = m21.oid_map
                          /\ m12.panic = m21.panic

\* C29 witness: a call has filled an order of one book at a level whose
\* LevelId a live order of the other book uses too.
C29_Witness ==
    /\ last.op \in {"match_order", "execute_order"}
    /\ \E x, y \in OrderIds :
          /\ last.before.oid_map[x] # None
          /\ last.before.oid_map[y] # None
          /\ last.before.oid_map[x].book_id # last.before.oid_map[y].book_id
          /\ last.before.oid_map[x].level_id = last.before.oid_map[y].level_id
          /\ oid_map[x] # last.before.oid_map[x]
          /\ oid_map[y] = last.before.oid_map[y]

\* C30: the maker_order of each MatchDetails is the maker as it was right
\* before its fill: for every fill of a match_order call, also one that removes
\* the maker from the index, the MatchDetails of the fill carries the maker's
\* trader, nonce, expiry and signature and the quantity the maker had before
\* execute_order.
C30_MakerSnapshotBeforeFill ==
    IsMatch =>
        /\ Len(last.match_details) = Len(last.fills)
        /\ \A i \in 1..Len(last.fills) :
              i <= Len(last.match_details) =>
                  LET f == last.fills[i]
                      maker == f.before.oid_map[f.maker]
                      snapshot == last.match_details[i].maker_order
                  IN /\ AuthFields(snapshot) = AuthFields(maker)
                     /\ snapshot.qty = maker.qty

\* C31: the taker_order of every MatchDetails of a match_order call is the
\* taker as submitted: its original quantity, its trader, nonce, expiry and
\* signature, the target book id and level handle 0; so it is the same in all
\* the matches of the call.
C31_TakerAsSubmitted ==
    IsMatch =>
        \A i \in 1..Len(last.match_details) :
            LET taker == last.match_details[i].taker_order
            IN /\ taker.qty = last.qty
               /\ AuthFields(taker) = AuthFields(Order_new(0, 0, 0, AuthOf(last.order_id)))
               /\ taker.book_id = last.book_id
               /\ taker.level_id = 0
               /\ taker = last.match_details[1].taker_order

\* C31 witness: a match was emitted for a fill at which the taker's remaining
\* quantity was already smaller than the submitted quantity.
C31_Witness ==
    /\ IsMatch
    /\ Len(last.match_details) > 0
    /\ \E i \in 1..Len(last.fills) :
          /\ last.fills[i].remaining_qty < last.qty
          /\ last.fills[i].after.oid_map[last.fills[i].maker] # None
          /\ last.match_details[1].taker_order.qty = last.qty

\* C32: every live order of the index has a quantity > 0 after any sequence
\* of calls; a cancel_order of an order's whole quantity removes the order.
C32_LiveOrdersPositive ==
    /\ \A o \in OrderIds : oid_map[o] # None => oid_map[o].qty > 0
    /\ (/\ last.op = "cancel_order"
        /\ last.before.oid_map[last.order_id] # None
        /\ last.before.oid_map[last.order_id].qty = last.qty)
           => oid_map[last.order_id] = None

\* C33: price sign convention.  add_order with external price p stores +p on
\* the bid side for a bid and -p on the ask side for an ask, so that absolute()
\* gives p back; the stored price of every linked level has the sign of its
\* side (bids positive, asks negative).
C33_PriceSign ==
    /\ \A b \in BookIds :
          books[b] # None =>
              /\ \A h \in Range(books[b].bids) :
                    h.price > 0 /\ LevelAt(books[b], h.level_id).price > 0
              /\ \A h \in Range(books[b].asks) :
                    h.price < 0 /\ LevelAt(books[b], h.level_id).price < 0
    /\ last.op = "add_order" =>
          LET order == oid_map[last.order_id]
              book == books[last.book_id]
              stored == LevelAt(book, order.level_id).price
          IN /\ Price_absolute(stored) = last.price
             /\ last.is_bid => /\ stored > 0
                               /\ \E h \in Range(book.bids) :
                                     h.price = stored /\ h.level_id = order.level_id
             /\ ~last.is_bid => /\ stored < 0
                                /\ \E h \in Range(book.asks) :
                                      h.price = stored /\ h.level_id = order.level_id

\* C34: no quantity underflow.  No match_order call, and no cancel_order or
\* execute_order call whose qty does not exceed the order's quantity, performs
\* a Qty subtraction with a left operand smaller than the right one, on the
\* remaining taker quantity, on an order's quantity or on a level's size.
C34_NoUnderflow ==
    \A c \in Calls :
        (c.op \in {"match_order", "cancel_order", "execute_order"} /\ Allowed(Manager, c))
            => ~Apply(Manager, c).panic

\* C35: level pool ownership.  In every book no LevelId is at once linked in
\* a side sequence and in the free-list, the free-list holds no LevelId twice,
\* and the LevelId alloc() would return is neither linked in a side sequence
\* nor referenced by a live order of the book.
C35_PoolOwnership ==
    \A b \in BookIds :
        books[b] # None =>
            LET pool == books[b].level_pool
                free == pool.free_list
                linked == {h.level_id : h \in Range(books[b].bids) \cup Range(books[b].asks)}
                referenced == {oid_map[o].level_id :
                                  o \in {x \in Live(oid_map) : oid_map[x].book_id = b}}
            IN /\ linked \cap Range(free) = {}
               /\ \A i, j \in 1..Len(free) : i # j => free[i] # free[j]
               /\ LevelPool_alloc(pool).id \notin linked \cup referenced

\* C36: match_order terminates.  Every iteration of the match loop that
\* executes a fill either removes the maker from the index or brings the
\* remaining taker quantity to zero, also when the maker's quantity is 0, so
\* the loop makes at most as many fills as the book has live orders (and at
\* most one more iteration, the one that breaks).
C36_LoopBounded ==
    IsMatch =>
        /\ Len(last.fills)
              <= Cardinality({o \in Live(last.before.oid_map) :
                                 last.before.oid_map[o].book_id = last.book_id})
        /\ \A i \in 1..Len(last.fills) :
              LET f == last.fills[i]
              IN \/ f.after.oid_map[f.maker] = None
                 \/ f.remaining_qty - f.exec_qty = 0

\* C36 witness: a match_order call has met a resting order of quantity 0,
\* removed it and gone on.
C36_Witness ==
    /\ IsMatch
    /\ \E i \in 1..Len(last.fills) :
          LET f == last.fills[i]
          IN /\ f.match_qty = 0
             /\ f.before.oid_map[f.maker] # None
             /\ f.after.oid_map[f.maker] = None
             /\ f.remaining_qty > 0

RECURSIVE ExecSum(_)
ExecSum(details) ==
    IF details = <<>> THEN 0 ELSE Head(details).exec_qty + ExecSum(Tail(details))

\* C37: taker conservation.  For every match_order call the submitted quantity
\* is the returned remaining quantity plus the sum of exec_qty over the
\* returned MatchDetails, and every returned exec_qty is > 0.
C37_TakerConservation ==
    IsMatch =>
        /\ last.qty = last.remaining_qty + ExecSum(last.match_details)
        /\ \A i \in 1..Len(last.match_details) : last.match_details[i].exec_qty > 0

\* Total size of the linked levels of an order book.
BookedQty(book) == SizeSum(book, book.bids) + SizeSum(book, book.asks)

\* C38: acknowledged orders are booked.  Whenever submit_order answers
\* success = true for book name n, under any interleaving with create_book,
\* the orderbooks map holds an OrderBook for n and the order has been added to
\* it.
C38_AcknowledgedIsBooked ==
    (IsSubmit /\ last.response.success) =>
        LET n == last.request.book_id
        IN /\ last.before.orderbooks[n] # None
           /\ api.orderbooks[n] # None
           /\ BookedQty(api.orderbooks[n])
                 = BookedQty(last.before.orderbooks[n]) + last.request.quantity

\* C39: book registry.  A register_book call returns Ok(id) when the name is
\* not registered and BookAlreadyExists, leaving the registry unchanged, when
\* it is, so of the calls with one name exactly one returns Ok; a registered
\* name keeps its id, get_book_id returns it, get_book_id of a name never
\* registered returns BookNotFound; two distinct registered names never have
\* the same BookId.
C39_Registry ==
    LET reg == api.book_registry
    IN /\ last.op = "register_book" =>
             /\ IsOk(last.result) <=> last.before[last.book_name] = None
             /\ IsOk(last.result) => reg[last.book_name] = Some(last.result.ok)
             /\ ~IsOk(last.result) =>
                    last.result = Err("BookAlreadyExists") /\ reg = last.before
       /\ last.op \in {"register_book", "get_book_id"} =>
             \A n \in RegistryNames : last.before[n] # None => reg[n] = last.before[n]
       /\ last.op = "get_book_id" =>
             last.result = IF reg[last.book_name] # None
                           THEN Ok(reg[last.book_name].some)
                           ELSE Err("BookNotFound")
       /\ \A n1, n2 \in DOMAIN reg :
             (n1 # n2 /\ reg[n1] # None /\ reg[n2] # None) => reg[n1] # reg[n2]

\* The LevelIds freed by the calls of log and not handed out again, oldest
\* first: a free adds its id at the end, an alloc takes the last one away.
RECURSIVE FreedNotReallocated(_)
FreedNotReallocated(log) ==
    IF log = <<>> THEN <<>>
    ELSE LET earlier == FreedNotReallocated(SubSeq(log, 1, Len(log) - 1))
             call == log[Len(log)]
         IN IF call.call = "free" THEN Append(earlier, call.id)
            ELSE IF earlier = <<>> THEN <<>>
            ELSE SubSeq(earlier, 1, Len(earlier) - 1)

\* C40: LIFO reuse.  alloc() returns the LevelId of the most recent free that
\* no alloc has taken yet when there is one, and otherwise a fresh id equal to
\* the length of the level vector before the call; no alloc or free makes the
\* level vector shorter.
C40_LifoReuse ==
    /\ last.op = "alloc" =>
          LET freed == FreedNotReallocated(last.before_log)
          IN /\ last.before.free_list # <<>> <=> freed # <<>>
             /\ freed # <<>> => /\ last.id = freed[Len(freed)]
                                /\ Len(books[0].level_pool.levels) = Len(last.before.levels)
             /\ freed = <<>> => /\ last.id = Len(last.before.levels)
                                /\ Len(books[0].level_pool.levels)
                                      = Len(last.before.levels) + 1
    /\ last.op = "free" => books[0].level_pool.levels = last.before.levels

\* C40 witness: with two LevelIds freed and not handed out again, alloc() has
\* returned the later one, which is not the first one freed.
C40_Witness ==
    /\ last.op = "alloc"
    /\ Len(FreedNotReallocated(last.before_log)) >= 2
    /\ last.id = FreedNotReallocated(last.before_log)[Len(FreedNotReallocated(last.before_log))]
    /\ last.id # FreedNotReallocated(last.before_log)[1]

====
